---------------------------- MODULE Spec2Model ----------------------------
(***************************************************************************)
(* A model of api-detector's repository retrieval layer:                   *)
(*   - app/services/detector_service.py  (detect_from_github / _upload)    *)
(*   - app/services/github_service.py    (download_repository_zip)         *)
(*   - app/services/file_service.py      (save / extract / cleanup)        *)
(*   - app/services/git_providers/*      (providers and their factory)     *)
(*                                                                         *)
(* The file system is a set of directories and a set of files, each an     *)
(* absolute path written as a sequence of component names below the        *)
(* working directory <<>>.  Paths the code builds are kept unresolved, as   *)
(* the code keeps them, and resolved against the file system at each use.  *)
(*                                                                         *)
(* Six specifications share the variables: Spec (the service under         *)
(* concurrent requests), SpecProvider (one method call on one provider),   *)
(* SpecFactory (one provider selection), SpecRegistry (selections mixed    *)
(* with register_provider), SpecAnalysis (one directory analysis) and      *)
(* SpecTwice (an analysis run twice in one process).  GitHubProvider       *)
(* leaves an abstract method undefined, so no instance of it exists and    *)
(* none of its methods runs: a call on it ends with the TypeError of the   *)
(* instantiation.                                                          *)
(***************************************************************************)
EXTENDS Naturals, Integers, Sequences, FiniteSets, TLC

(***************************************************************************)
(* Bounds of the model.                                                    *)
(***************************************************************************)
\* Depth at which a nested call raises RecursionError (Python's recursion
\* limit, scaled down).
MaxDepth == 3
\* The same limit in the runs with two concurrent requests.
ConcDepth == 1
\* Attempt counters saturate here.
AttemptCap == 2

\* The largest number of files in an analysed tree.
MaxFiles == 3

None == <<"?None">>
ENOENT == <<"?ENOENT">>

(***************************************************************************)
(* Configuration (app/core/config.py).                                     *)
(***************************************************************************)
TEMP_DIR == <<"data", "temp">>
UPLOAD_DIR == <<"data", "uploads">>

(***************************************************************************)
(* Paths.                                                                  *)
(***************************************************************************)
IsPrefix(p, q) == Len(p) <= Len(q) /\ SubSeq(q, 1, Len(p)) = p

Parent(p) == IF p = <<>> THEN <<>> ELSE SubSeq(p, 1, Len(p) - 1)

\* The operating system's resolution of the components comps from the
\* directory cur: every directory that is looked into must exist; the last
\* component itself need not.
RECURSIVE Walk(_, _, _)
Walk(dirs, cur, comps) ==
    IF comps = <<>> THEN cur
    ELSE IF cur \notin dirs THEN ENOENT
    ELSE IF Head(comps) = ".." THEN Walk(dirs, Parent(cur), Tail(comps))
    ELSE Walk(dirs, Append(cur, Head(comps)), Tail(comps))

Resolve(dirs, comps) == Walk(dirs, <<>>, comps)

\* Path.exists()
Exists(dirs, files, comps) ==
    LET p == Resolve(dirs, comps)
    IN  p # ENOENT /\ (p \in dirs \/ p \in files)

\* The lexical meaning of a path all of whose prefixes exist.
RECURSIVE NormFrom(_, _)
NormFrom(cur, comps) ==
    IF comps = <<>> THEN cur
    ELSE IF Head(comps) = ".." THEN NormFrom(Parent(cur), Tail(comps))
    ELSE NormFrom(Append(cur, Head(comps)), Tail(comps))

\* Path.mkdir(parents=True, exist_ok=True): pathlib creates the missing
\* lexical parents first, so every lexical prefix exists afterwards.
MkdirP(dirs, comps) ==
    dirs \cup {NormFrom(<<>>, SubSeq(comps, 1, k)) : k \in 0..Len(comps)}

\* shutil.rmtree(p) on a set of paths (directories or files).
RmTree(S, p) == {q \in S : ~IsPrefix(p, q)}

\* Path(root) / f"{prefix}{branch}{suffix}": pathlib splits the name at "/"
\* and drops empty and "." components; ".." components are kept.
JoinName(prefix, branch, suffix) ==
    LET n == Len(branch)
        raw == [i \in 1..n |->
                   (IF i = 1 THEN prefix ELSE "") \o branch[i]
                                                 \o (IF i = n THEN suffix ELSE "")]
    IN  SelectSeq(raw, LAMBDA c : c # "" /\ c # ".")

\* The entries of a directory (Path.iterdir()).
Children(dirs, files, p) ==
    {q \in dirs \cup files : Len(q) = Len(p) + 1 /\ IsPrefix(p, q)}

InTemp(p) == p # TEMP_DIR /\ IsPrefix(TEMP_DIR, p)


(***************************************************************************)
(* The service: concurrent requests over one temp-storage tree.  uvicorn   *)
(* runs several worker processes (app/main.py), so the steps of two         *)
(* requests interleave.                                                    *)
(***************************************************************************)
VARIABLES
    fsDirs,     \* the directories that exist
    fsFiles,    \* the files that exist
    pc,         \* each request's position in detect_from_github / _upload
    inp,        \* each request's input
    stack,      \* each request's nested download_repository_zip calls
    ret,        \* what retrieval handed to the service
    resp,       \* the AnalysisResult the service returned
    created,    \* history: the paths each request created
    attempts,   \* history: download attempts per branch (saturating)
    events,     \* history: the retrieval strategies each request attempted
    clients,    \* the requests that arrive in this run
    recLimit    \* the interpreter's recursion limit, in nested calls

svcVars == <<fsDirs, fsFiles, pc, inp, stack, ret, resp, created, attempts,
             events, clients, recLimit>>

\* One call of a git provider (services/git_providers, git_service.py).
VARIABLES
    pvProv,     \* the provider class that is called
    pvOp,       \* the method that is called
    pvBranch,   \* its branch argument
    pvPc,       \* the call's position
    pvIdx,      \* download_zip: the position in the candidate list
    pvTried,    \* history: the branches download_zip_from_branch was given
    pvLast,     \* download_zip: last_error
    pvRes,      \* what the call returned or raised
    pvHost      \* history: what the host answered to the metadata request

pvVars == <<pvProv, pvOp, pvBranch, pvPc, pvIdx, pvTried, pvLast, pvRes,
            pvHost>>

\* One selection by GitProviderFactory.create_provider.
VARIABLES
    fcProviders, \* GitProviderFactory._providers
    fcUrl,      \* the URL that is given
    fcPc,       \* the selection's position
    fcIdx,      \* the position in the provider list
    fcRes       \* what the selection returned or raised

fcVars == <<fcProviders, fcUrl, fcPc, fcIdx, fcRes>>

VARIABLES
    anPc,       \* where the analysis stands
    anImpl,     \* which implementation runs: the service's or CodebaseAnalyzer
    anRoot,     \* codebase_path
    anTree,     \* the files below the root, in the order a listing yields them
    anFound,    \* history: the files the OpenAPI pass visited, in order
    anCode,     \* code_files
    anIdx,      \* the loop's position in code_files
    anLists,    \* rest_endpoints, websocket_apis, grpc_services, graphql_apis
    anResult,   \* the AnalysisResult under construction
    anSeed,     \* the hash seed of the interpreter process that runs it
    anPrev      \* history: the results of the earlier runs on the same input

anVars == <<anPc, anImpl, anRoot, anTree, anFound, anCode, anIdx, anLists,
            anResult, anSeed, anPrev>>

\* The variables the service's steps leave alone.
nonSvcVars == <<pvVars, fcVars, anVars>>

\* The variables of the service other than the file system.
reqVars == <<pc, inp, stack, ret, resp, created, attempts, events, clients,
             recLimit>>

Requests == {"q1", "q2"}

\* github_service.download_repository_zip: the alternatives tried on a 404.
common_branches == << <<"master">>, <<"main">>, <<"develop">>, <<"dev">> >>

\* What the host's metadata API may name as the default branch.
DefaultAnswers == { <<"main">>, <<"master">> }

TraversalBranch == <<"main", "..", "..", "x">>

\* A branch name that steps out of one directory only.
SiblingBranch == <<"main", "..", "x">>

Url(host, path) == [host |-> host, path |-> path]

GithubInput(path, branch) ==
    [kind |-> "github", url |-> Url("github.com", path), branch |-> branch,
     filename |-> ""]

UploadInput(filename) ==
    [kind |-> "upload", url |-> Url("", <<>>), branch |-> None,
     filename |-> filename]

NoInput == [kind |-> "none", url |-> Url("", <<>>), branch |-> None, filename |-> ""]

Inputs ==
    { GithubInput(<<"o1", "r">>, None),
      GithubInput(<<"o1", "r">>, <<"main">>),
      GithubInput(<<"o2", "r.git">>, <<"main">>),
      GithubInput(<<"o1", "r">>, <<"feat">>),
      GithubInput(<<"o1", "github_r">>, TraversalBranch),
      GithubInput(<<"o1", "github_r">>, SiblingBranch),
      GithubInput(<<"o1">>, None),
      [GithubInput(<<"o1", "r">>, None) EXCEPT !.url = Url("gitlab.com", <<"o1", "r">>)],
      UploadInput("a.zip"),
      UploadInput("a.txt") }

BranchUniverse ==
    ({common_branches[i] : i \in DOMAIN common_branches}
        \cup DefaultAnswers \cup {i.branch : i \in Inputs}) \ {None}

\* urlparse(url).path.strip("/").split("/")
PathParts(url) == IF url.path = <<>> THEN <<"">> ELSE url.path

\* name.replace(".git", "") on the repository names of the model.
StripGit(name) == IF name = "r.git" THEN "r" ELSE name

\* Path(name).stem on the file names of the model.
Stem(name) == IF name = "a.zip" THEN "a" ELSE name

RepoName(url) == StripGit(PathParts(url)[2])

\* Nothing answered yet: whether the service returned a result, the result's
\* errors, and the status code of the boundary's answer.
NoResp == [returned |-> FALSE, errors |-> <<>>, http |-> 0]

NoRet == [status |-> "none", dir |-> None, msg |-> "", made |-> None]

Frame(repo, branch) ==
    [branch |-> branch,
     made   |-> None,
     zip    |-> TEMP_DIR \o JoinName(repo \o "_", branch, ".zip"),
     dir    |-> TEMP_DIR \o JoinName("github_" \o repo \o "_", branch, ""),
     st     |-> "get",
     alts   |-> <<>>,
     good   |-> FALSE]

\* download_repository_zip, lines 89-99: the temp directory and a fresh
\* extraction directory.
PrologueDirs(dirs, dirc) ==
    LET d1 == MkdirP(dirs, TEMP_DIR)
        p  == Resolve(d1, dirc)
        d2 == IF p # ENOENT /\ p \in d1 THEN RmTree(d1, p) ELSE d1
    IN  MkdirP(d2, dirc)

PrologueFiles(dirs, files, dirc) ==
    LET d1 == MkdirP(dirs, TEMP_DIR)
        p  == Resolve(d1, dirc)
    IN  IF p # ENOENT /\ p \in d1 THEN RmTree(files, p) ELSE files

Bump(a, b) == [a EXCEPT ![b] = IF @ < AttemptCap THEN @ + 1 ELSE @]

Top(r) == stack[r][Len(stack[r])]

SetTop(r, f) == [stack EXCEPT ![r] = [@ EXCEPT ![Len(@)] = f]]

\* finally: if zip_path.exists(): zip_path.unlink()
Unlink(dirs, files, comps) ==
    LET p == Resolve(dirs, comps)
    IN  IF p # ENOENT /\ p \in files THEN files \ {p} ELSE files

FsInit ==
    /\ fsDirs = {<<>>, <<"data">>, TEMP_DIR, UPLOAD_DIR}
    /\ fsFiles = {}

\* No request has arrived; cl are the requests that will, lim the recursion
\* limit of the interpreter.
ReqInit(cl, lim) ==
    /\ pc = [r \in Requests |-> "idle"]
    /\ inp = [r \in Requests |-> NoInput]
    /\ stack = [r \in Requests |-> <<>>]
    /\ ret = [r \in Requests |-> NoRet]
    /\ resp = [r \in Requests |-> NoResp]
    /\ created = [r \in Requests |-> {}]
    /\ attempts = [r \in Requests |-> [b \in BranchUniverse |-> 0]]
    /\ events = [r \in Requests |-> {}]
    /\ clients = cl
    /\ recLimit = lim

SvcInit ==
    /\ FsInit
    /\ \/ ReqInit({"q1"}, MaxDepth)
       \/ ReqInit(Requests, ConcDepth)

\* str.endswith(".zip") on the file names of the model.
EndsWithZip(name) == name = "a.zip"

\* The checks of the boundary layer (api/detector.py) before it calls the
\* service, as the status code they lead to; 200 when the service is called.
\* The HTTPException(400) for a file that is no zip is raised inside the
\* try whose except Exception clause answers 500.
BoundaryStatus(i) ==
    IF i.kind = "upload"
    THEN IF EndsWithZip(i.filename) THEN 200 ELSE 500
    ELSE IF i.url.host = "github.com" THEN 200 ELSE 400

\* The boundary layer rejects the request without calling the service.
Reject(r) ==
    /\ pc[r] = "idle"
    /\ r \in clients
    /\ \E i \in Inputs :
          /\ BoundaryStatus(i) # 200
          /\ inp' = [inp EXCEPT ![r] = i]
          /\ resp' = [resp EXCEPT ![r] = [NoResp EXCEPT !.http = BoundaryStatus(i)]]
    /\ pc' = [pc EXCEPT ![r] = "done"]
    /\ UNCHANGED <<fsDirs, fsFiles, stack, ret, created, attempts, events,
                   clients, recLimit, nonSvcVars>>

\* A request arrives.  detect_from_github, lines 104-117: the URL is parsed
\* and rejected when its path has fewer than two parts.
Begin(r) ==
    /\ pc[r] = "idle"
    /\ r \in clients
    /\ \E i \in Inputs :
          /\ BoundaryStatus(i) = 200
          /\ inp' = [inp EXCEPT ![r] = i]
          /\ IF i.kind = "upload"
                THEN pc' = [pc EXCEPT ![r] = "save"] /\ ret' = ret
             ELSE IF Len(PathParts(i.url)) < 2
                THEN /\ pc' = [pc EXCEPT ![r] = "except"]
                     /\ ret' = [ret EXCEPT ![r] =
                                   [NoRet EXCEPT !.status = "raised",
                                                 !.msg = "invalid_url"]]
             ELSE pc' = [pc EXCEPT ![r] = "call"] /\ ret' = ret
    /\ UNCHANGED <<fsDirs, fsFiles, stack, resp, created, attempts, events,
                   clients, recLimit, nonSvcVars>>

\* download_repository_zip(repo_url, branch), lines 72-99, for the service's
\* own call: an absent branch is resolved through the metadata API, any
\* failure of which yields "main".
CallDownload(r) ==
    /\ pc[r] = "call"
    /\ \E b \in (IF inp[r].branch = None
                    THEN DefaultAnswers \cup {<<"main">>}
                    ELSE {inp[r].branch}) :
          LET f == Frame(RepoName(inp[r].url), b)
              d == PrologueDirs(fsDirs, f.dir)
          IN  /\ fsDirs' = d
              /\ fsFiles' = PrologueFiles(fsDirs, fsFiles, f.dir)
              /\ stack' = [stack EXCEPT ![r] =
                                <<[f EXCEPT !.made = Resolve(d, f.dir)]>>]
              /\ created' = [created EXCEPT ![r] = @ \cup {Resolve(d, f.dir)}]
    /\ pc' = [pc EXCEPT ![r] = "dl"]
    /\ UNCHANGED <<inp, ret, resp, attempts, events, clients, recLimit, nonSvcVars>>


Remove(list, x) == SelectSeq(list, LAMBDA b : b # x)

\* The call on top of r's stack raises: its finally clause runs, and the
\* exception reaches either the service (the outermost call) or the loop of
\* the calling frame, whose "except Exception: continue" goes on with the
\* next alternative.
FailTop(r, msg) ==
    LET f == Top(r)
    IN  /\ fsFiles' = Unlink(fsDirs, fsFiles, f.zip)
        /\ IF Len(stack[r]) = 1
              THEN /\ stack' = [stack EXCEPT ![r] = <<>>]
                   /\ pc' = [pc EXCEPT ![r] = "except"]
                   /\ ret' = [ret EXCEPT ![r] =
                                 [status |-> "raised", dir |-> None,
                                  msg |-> msg, made |-> f.made]]
              ELSE /\ stack' = [stack EXCEPT ![r] =
                                   LET s == SubSeq(@, 1, Len(@) - 1)
                                   IN  [s EXCEPT ![Len(s)].alts = Tail(@)]]
                   /\ pc' = pc
                   /\ ret' = ret

HttpOutcomes == {"200", "200bad", "404", "500", "timeout"}

\* download_repository_zip, lines 106-117 and 134-157: the GET of the
\* branch's archive and the write of the zip file.
Get(r) ==
    /\ pc[r] = "dl"
    /\ Top(r).st = "get"
    /\ attempts' = [attempts EXCEPT ![r] = Bump(@, Top(r).branch)]
    /\ events' = [events EXCEPT ![r] = @ \cup {"archive"}]
    /\ \E o \in HttpOutcomes :
          LET f  == Top(r)
              zp == Resolve(fsDirs, f.zip)
          IN  IF o \in {"200", "200bad"} /\ zp # ENOENT /\ zp \notin fsDirs
                 THEN /\ fsFiles' = fsFiles \cup {zp}
                      /\ stack' = SetTop(r, [f EXCEPT !.st = "extract",
                                                      !.good = (o = "200")])
                      /\ created' = [created EXCEPT ![r] = @ \cup {zp}]
                      /\ UNCHANGED <<pc, ret>>
              ELSE IF o = "404"
                 THEN /\ stack' = SetTop(r, [f EXCEPT !.st = "alts",
                                     !.alts = Remove(common_branches, f.branch)])
                      /\ UNCHANGED <<fsFiles, pc, ret, created>>
              ELSE /\ FailTop(r, "download_failed")
                   /\ UNCHANGED created
    /\ UNCHANGED <<fsDirs, inp, resp, clients, recLimit, nonSvcVars>>

ExtractLayouts == {"single", "flat"}

\* download_repository_zip, lines 119-132 and 158-161: extraction, the
\* choice of the directory to return, and the finally clauses of every
\* frame the value is returned through.
Extract(r) ==
    /\ pc[r] = "dl"
    /\ Top(r).st = "extract"
    /\ LET f  == Top(r)
           zp == Resolve(fsDirs, f.zip)
       IN  IF zp \notin fsFiles \/ ~f.good
              THEN /\ FailTop(r, "download_failed")
                   /\ UNCHANGED <<fsDirs, created>>
           ELSE \E layout \in ExtractLayouts :
              LET d1  == MkdirP(fsDirs, f.dir)
                  ed  == Resolve(d1, f.dir)
                  top == Append(ed, "top")
                  d2  == IF layout = "single" THEN d1 \cup {top} ELSE d1
                  new == IF layout = "single"
                            THEN {Append(top, "app.py")}
                            ELSE {Append(ed, "app.py")}
                  f2  == fsFiles \cup new
                  cs  == Children(d2, f2, ed)
                  rv  == IF Cardinality(cs) = 1 /\ cs \subseteq d2
                            THEN Append(f.dir, (CHOOSE c \in cs : TRUE)[Len(ed) + 1])
                            ELSE f.dir
              IN  /\ fsDirs' = d2
                  /\ fsFiles' = f2 \ {Resolve(d2, stack[r][i].zip) :
                                         i \in DOMAIN stack[r]}
                  /\ created' = [created EXCEPT ![r] = @ \cup new \cup (d2 \ fsDirs)]
                  /\ stack' = [stack EXCEPT ![r] = <<>>]
                  /\ pc' = [pc EXCEPT ![r] = "analyze"]
                  /\ ret' = [ret EXCEPT ![r] =
                                [status |-> "ok", dir |-> rv, msg |-> "",
                                 made |-> f.made]]
    /\ UNCHANGED <<inp, resp, attempts, events, clients, recLimit, nonSvcVars>>

\* download_repository_zip, lines 144-149: the next alternative branch is
\* tried by a nested call; a call beyond the recursion limit raises
\* RecursionError, which the loop swallows like any other exception.
TryAlt(r) ==
    /\ pc[r] = "dl"
    /\ Top(r).st = "alts"
    /\ Top(r).alts # <<>>
    /\ IF Len(stack[r]) >= recLimit
          THEN /\ stack' = SetTop(r, [Top(r) EXCEPT !.alts = Tail(@)])
               /\ UNCHANGED <<fsDirs, fsFiles, created>>
          ELSE LET f == Frame(RepoName(inp[r].url), Head(Top(r).alts))
                   d == PrologueDirs(fsDirs, f.dir)
               IN  /\ fsDirs' = d
                   /\ fsFiles' = PrologueFiles(fsDirs, fsFiles, f.dir)
                   /\ stack' = [stack EXCEPT ![r] =
                                   Append(@, [f EXCEPT !.made = Resolve(d, f.dir)])]
                   /\ created' = [created EXCEPT ![r] = @ \cup {Resolve(d, f.dir)}]
    /\ UNCHANGED <<pc, inp, ret, resp, attempts, events, clients, recLimit, nonSvcVars>>

\* download_repository_zip, line 152: every alternative failed.
Exhausted(r) ==
    /\ pc[r] = "dl"
    /\ Top(r).st = "alts"
    /\ Top(r).alts = <<>>
    /\ FailTop(r, "no_valid_branch")
    /\ UNCHANGED <<fsDirs, inp, resp, created, attempts, events, clients, recLimit, nonSvcVars>>

\* file_service.save_upload_file: the name carries a timestamp and a fresh
\* identifier, modelled by the request's own name.
SaveName(r) == "u_" \o r \o "_" \o Stem(inp[r].filename)

SavePath(r) == Append(UPLOAD_DIR, SaveName(r) \o ".zip")

UploadDir(r) == Append(TEMP_DIR, SaveName(r))

SaveUpload(r) ==
    /\ pc[r] = "save"
    /\ fsDirs' = MkdirP(fsDirs, UPLOAD_DIR)
    /\ fsFiles' = fsFiles \cup {SavePath(r)}
    /\ created' = [created EXCEPT ![r] = @ \cup {SavePath(r)}]
    /\ pc' = [pc EXCEPT ![r] = "unzip"]
    /\ UNCHANGED <<inp, stack, ret, resp, attempts, events, clients, recLimit, nonSvcVars>>

\* file_service.extract_zip: a fresh directory named after the archive; the
\* archive may turn out not to be a zip file.
ExtractUpload(r) ==
    /\ pc[r] = "unzip"
    /\ LET d == PrologueDirs(fsDirs, UploadDir(r))
       IN  /\ fsDirs' = d
           /\ created' = [created EXCEPT ![r] = @ \cup {UploadDir(r)}]
           /\ \E good \in BOOLEAN :
                IF good /\ SavePath(r) \in fsFiles
                   THEN /\ fsFiles' = PrologueFiles(fsDirs, fsFiles, UploadDir(r))
                                         \cup {Append(UploadDir(r), "app.py")}
                        /\ pc' = [pc EXCEPT ![r] = "analyze"]
                        /\ ret' = [ret EXCEPT ![r] =
                                      [status |-> "ok", dir |-> UploadDir(r),
                                       msg |-> "", made |-> UploadDir(r)]]
                   ELSE /\ fsFiles' = PrologueFiles(fsDirs, fsFiles, UploadDir(r))
                        /\ pc' = [pc EXCEPT ![r] = "except"]
                        /\ ret' = [ret EXCEPT ![r] =
                                      [status |-> "raised", dir |-> None,
                                       msg |-> "bad_zip", made |-> UploadDir(r)]]
    /\ UNCHANGED <<inp, stack, resp, attempts, events, clients, recLimit, nonSvcVars>>

\* _analyze_codebase on the directory retrieval returned.
Analyze(r) ==
    /\ pc[r] = "analyze"
    /\ pc' = [pc EXCEPT ![r] = "cleanup"]
    /\ UNCHANGED <<fsDirs, fsFiles, inp, stack, ret, resp, created, attempts,
                   events, clients, recLimit, nonSvcVars>>

\* What the service passes to cleanup_temp_files: the analysed directory
\* (detect_from_github) or the saved archive (detect_from_upload).
CleanupTarget(r) == IF inp[r].kind = "upload" THEN SavePath(r) ELSE ret[r].dir

\* file_service.cleanup_temp_files(path), lines 86-92, and the return of the
\* result.  When the path does not exist the function sweeps items older
\* than keep_days instead; nothing of a request in flight is that old.
Cleanup(r) ==
    /\ pc[r] = "cleanup"
    /\ LET p == Resolve(fsDirs, CleanupTarget(r))
       IN  IF p # ENOENT /\ p \in fsFiles
              THEN fsFiles' = fsFiles \ {p} /\ fsDirs' = fsDirs
           ELSE IF p # ENOENT /\ p \in fsDirs
              THEN fsFiles' = RmTree(fsFiles, p) /\ fsDirs' = RmTree(fsDirs, p)
           ELSE UNCHANGED <<fsDirs, fsFiles>>
    /\ resp' = [resp EXCEPT ![r] = [returned |-> TRUE, errors |-> <<>>,
                                   http |-> 200]]
    /\ pc' = [pc EXCEPT ![r] = "done"]
    /\ UNCHANGED <<inp, stack, ret, created, attempts, events, clients, recLimit, nonSvcVars>>

\* detect_from_github, lines 143-164, and detect_from_upload, lines 83-91:
\* the exception becomes the only entry of the result's errors.
Except(r) ==
    /\ pc[r] = "except"
    /\ resp' = [resp EXCEPT ![r] = [returned |-> TRUE, errors |-> <<ret[r].msg>>,
                                   http |-> 200]]
    /\ pc' = [pc EXCEPT ![r] = "done"]
    /\ UNCHANGED <<fsDirs, fsFiles, inp, stack, ret, created, attempts, events,
                   clients, recLimit, nonSvcVars>>

SvcNext ==
    \E r \in Requests :
        \/ Reject(r)
        \/ Begin(r)
        \/ CallDownload(r)
        \/ Get(r)
        \/ Extract(r)
        \/ TryAlt(r)
        \/ Exhausted(r)
        \/ SaveUpload(r)
        \/ ExtractUpload(r)
        \/ Analyze(r)
        \/ Cleanup(r)
        \/ Except(r)

(***************************************************************************)
(* The git providers (services/git_providers).  One call of one method of  *)
(* one provider class, made on a fresh instance for the repository o1/r.   *)
(***************************************************************************)
Providers == {"github", "gitlab", "bitbucket", "generic"}

\* The abstract methods of GitProvider.
AbstractMethods ==
    {"can_handle", "get_default_branch", "clone_repository", "download_zip",
     "download_zip_from_branch", "get_repo_info", "repo_url", "provider_name"}

\* The methods each provider class defines.
Implements(prov) ==
    IF prov = "github"
    THEN AbstractMethods \ {"download_zip_from_branch"}
    ELSE AbstractMethods

\* A class that leaves an abstract method undefined cannot be instantiated:
\* the call of the class raises TypeError before __init__ runs.
Instantiable(prov) == AbstractMethods \subseteq Implements(prov)

\* GitProvider.get_default_branch_download
Candidates ==
    << <<"main">>, <<"master">>, <<"develop">>, <<"trunk">>, <<"default">> >>

PvOwner == "o1"
PvRepo == "r"

\* The name of the archive a provider saves, up to the branch.
ZipPrefix(prov) ==
    CASE prov = "gitlab"    -> "gitlab_" \o PvOwner \o "_" \o PvRepo \o "_"
      [] prov = "bitbucket" -> "bitbucket_" \o PvOwner \o "_" \o PvRepo \o "_"
      [] OTHER              -> "git_" \o PvRepo \o "_"

\* The name of the directory a provider clones into, up to the branch.
ClonePrefix(prov) ==
    CASE prov = "gitlab"    -> "gitlab_" \o PvRepo \o "_"
      [] prov = "bitbucket" -> "bitbucket_" \o PvRepo \o "_"
      [] OTHER              -> "git_" \o PvRepo \o "_"

\* f"{branch}" of a branch that may be None.
Fmt(branch) == IF branch = None THEN <<"None">> ELSE branch

\* What a method does: the exception it raises ("" when it returns), the
\* value it returns, the message, and the file system it leaves.
Out(exc, val, msg, dirs, files) ==
    [exc |-> exc, val |-> val, msg |-> msg, dirs |-> dirs, files |-> files]

\* What the host answers to the metadata request: a document, a status of
\* not found, another error status, or nothing (timeout, network failure,
\* undecodable body).
ApiOutcomes == {"200", "404", "500", "network"}

\* get_default_branch when the host answers h.  GitLab and Bitbucket ask the
\* host's API: the branch the document names, ValueError on an error status,
\* and on any other failure "main" (Bitbucket) or the result of the abstract
\* base method, None (GitLab).  Generic fetches into temp_branch_check,
\* answers "main" after any failure, and removes the directory again.
DefaultBranchOn(prov, h, dirs, files) ==
    IF prov = "generic"
    THEN LET t == TEMP_DIR \o <<"temp_branch_check">>
         IN  {Out("", b, "", RmTree(dirs, t), RmTree(files, t)) :
                 b \in IF h = "200" THEN DefaultAnswers \cup {<<"main">>}
                                    ELSE {<<"main">>}}
    ELSE CASE h = "200" -> {Out("", b, "", dirs, files) : b \in DefaultAnswers}
           [] h = "404" -> {Out("ValueError", None, "repo_not_found", dirs, files)}
           [] h = "500" -> {Out("ValueError", None, "repo_info_failed", dirs, files)}
           [] OTHER     -> {Out("", IF prov = "gitlab" THEN None ELSE <<"main">>,
                                "", dirs, files)}

get_default_branch(prov, dirs, files) ==
    UNION {DefaultBranchOn(prov, h, dirs, files) : h \in ApiOutcomes}

\* The keys of the record get_repo_info builds from the host's document, and
\* of the basic record it returns when the request itself fails.
InfoKeys(prov) ==
    CASE prov = "gitlab" ->
           <<"url", "type", "repo_name", "project_path", "name",
             "path_with_namespace", "description", "default_branch",
             "visibility", "star_count", "forks_count", "open_issues_count",
             "created_at", "last_activity_at">>
      [] prov = "bitbucket" ->
           <<"url", "type", "repo_name", "workspace", "name", "full_name",
             "description", "is_private", "created_on", "updated_on", "size",
             "language">>
      [] OTHER ->
           <<"url", "type", "repo_name", "owner", "name", "full_name",
             "description", "default_branch", "language", "stars", "forks",
             "open_issues", "created_at", "updated_at", "owner_type">>

BasicKeys(prov) ==
    <<"url", "type", "repo_name",
      CASE prov = "gitlab" -> "project_path"
        [] prov = "bitbucket" -> "workspace"
        [] OTHER -> "owner">>

\* get_repo_info when the host answers h: the keys of the returned record.
\* Generic reads only its own URL.
get_repo_info(prov, h, dirs, files) ==
    IF prov = "generic"
    THEN {Out("", k, "", dirs, files) :
             k \in {<<"url", "domain", "type", "repo_name">>,
                    <<"url", "domain", "type", "repo_name", "owner">>}}
    ELSE CASE h = "200" ->
                {Out("", k, "", dirs, files) :
                    k \in {InfoKeys(prov)} \cup
                          (CASE prov = "gitlab" ->
                                  {Append(InfoKeys(prov), "namespace")}
                             [] prov = "bitbucket" ->
                                  {Append(InfoKeys(prov), "default_branch")}
                             [] OTHER -> {})}
           [] h = "404" -> {Out("ValueError", None, "repo_not_found", dirs, files)}
           [] h = "500" -> {Out("ValueError", None, "repo_info_failed", dirs, files)}
           [] OTHER     -> {Out("", BasicKeys(prov), "", dirs, files)}

GitOutcomes == {"ok", "not_found", "auth", "other"}

CloneMessage(g) ==
    CASE g = "not_found" -> "not_found_or_auth"
      [] g = "auth"      -> "auth_required"
      [] OTHER           -> "clone_failed"

\* clone_repository with the branch resolved: a fresh directory, then git.
CloneInto(prov, dirs, files, branch) ==
    LET cd == TEMP_DIR \o JoinName(ClonePrefix(prov), Fmt(branch), "")
        p0 == Resolve(dirs, cd)
        d0 == IF p0 # ENOENT /\ p0 \in dirs THEN RmTree(dirs, p0) ELSE dirs
        f0 == IF p0 # ENOENT /\ p0 \in dirs THEN RmTree(files, p0) ELSE files
        d1 == MkdirP(d0, cd)
        p  == Resolve(d1, cd)
    IN  {IF g = "ok"
         THEN Out("", cd, "", d1 \cup {Append(p, ".git")},
                  f0 \cup {Append(p, "app.py")})
         ELSE Out("ValueError", cd, CloneMessage(g), d1, f0) :
            g \in GitOutcomes}

\* clone_repository: a missing branch is resolved first.  Generic lets the
\* resolution's exception through; GitLab and Bitbucket use "main" instead.
clone_repository(prov, dirs, files, branch) ==
    IF branch # None THEN CloneInto(prov, dirs, files, branch)
    ELSE UNION {
           IF b.exc = ""
           THEN CloneInto(prov, b.dirs, b.files, b.val)
           ELSE IF prov = "generic" THEN {b}
           ELSE CloneInto(prov, b.dirs, b.files, <<"main">>) :
              b \in get_default_branch(prov, dirs, files)}

HostOutcomes == {"200", "reset", "404", "500"}

\* DownloadUtils.download_zip_from_url as GitLab and Bitbucket call it: the
\* parent directory is made and an existing file removed outside the try;
\* a failure after the file was opened leaves what was written.
download_zip_from_url(dirs, files, zc) ==
    LET d1 == MkdirP(dirs, SubSeq(zc, 1, Len(zc) - 1))
        p  == Resolve(d1, zc)
        f1 == files \ {p}
    IN  IF p \in d1 THEN {Out("OSError", None, "is_a_directory", d1, files)}
        ELSE {CASE h = "200"   -> Out("", zc, "", d1, f1 \cup {p})
                [] h = "reset" -> Out("ValueError", None, "download_failed",
                                      d1, f1 \cup {p})
                [] h = "404"   -> Out("ValueError", None, "branch_not_found",
                                      d1, f1)
                [] OTHER       -> Out("ValueError", None, "download_failed",
                                      d1, f1) :
                 h \in HostOutcomes}

\* GenericGitProvider.download_zip_from_branch: clone, zip the clone, and
\* remove the clone directory if the clone had returned it.
GenericZip(dirs, files, branch) ==
    LET zc == TEMP_DIR \o JoinName(ZipPrefix("generic"), branch, ".zip")
    IN  {IF c.exc # ""
         THEN Out("ValueError", None, "zip_failed", c.dirs, c.files)
         ELSE LET p  == Resolve(c.dirs, zc)
                  cp == Resolve(c.dirs, c.val)
              IN  IF p = ENOENT \/ p \in c.dirs
                  THEN Out("ValueError", None, "zip_failed",
                           RmTree(c.dirs, cp), RmTree(c.files, cp))
                  ELSE Out("", zc, "", RmTree(c.dirs, cp),
                           RmTree(c.files \cup {p}, cp)) :
            c \in clone_repository("generic", dirs, files, branch)}

download_zip_from_branch(prov, dirs, files, branch) ==
    IF prov = "generic" THEN GenericZip(dirs, files, branch)
    ELSE download_zip_from_url(dirs, files,
             TEMP_DIR \o JoinName(ZipPrefix(prov), branch, ".zip"))

PvOps == {"download_zip", "clone_repository", "get_default_branch",
          "get_repo_info", "git_service.get_repo_info"}

PvBranches == {None, <<"main">>, <<"feat">>, TraversalBranch}

PvNone == [status |-> "none", exc |-> "", val |-> None, msg |-> ""]

PvReturned(o) == [status |-> "returned", exc |-> "", val |-> o.val, msg |-> ""]

PvRaised(exc, msg) == [status |-> "raised", exc |-> exc, val |-> None, msg |-> msg]

PvInit ==
    /\ pvProv = "none"
    /\ pvOp = "none"
    /\ pvBranch = None
    /\ pvPc = "idle"
    /\ pvIdx = 1
    /\ pvTried = <<>>
    /\ pvLast = ""
    /\ pvRes = PvNone
    /\ pvHost = ""

\* The provider is instantiated and the method is called.
PvCall(prov, op, branch) ==
    /\ pvPc = "idle"
    /\ op \notin {"download_zip", "clone_repository"} => branch = None
    /\ pvProv' = prov
    /\ pvOp' = op
    /\ pvBranch' = branch
    /\ IF Instantiable(prov) \/ op = "git_service.get_repo_info"
       THEN pvPc' = op /\ pvRes' = pvRes
       ELSE pvPc' = "done" /\ pvRes' = PvRaised("TypeError", "abstract_class")
    /\ UNCHANGED <<pvIdx, pvTried, pvLast, pvHost, fsDirs, fsFiles, reqVars,
                   fcVars, anVars>>

PvFinish(o) ==
    /\ pvPc' = "done"
    /\ pvRes' = IF o.exc = "" THEN PvReturned(o) ELSE PvRaised(o.exc, o.msg)
    /\ fsDirs' = o.dirs
    /\ fsFiles' = o.files

\* download_zip with a branch: that branch, directly.
PvDirect ==
    /\ pvPc = "download_zip"
    /\ pvBranch # None
    /\ \E o \in download_zip_from_branch(pvProv, fsDirs, fsFiles, pvBranch) :
          PvFinish(o)
    /\ pvTried' = Append(pvTried, pvBranch)
    /\ UNCHANGED <<pvProv, pvOp, pvBranch, pvIdx, pvLast, pvHost, reqVars,
                   fcVars, anVars>>

\* download_zip without a branch: one turn of the loop over the candidates.
\* Only ValueError is caught.
PvTry ==
    /\ pvPc = "download_zip"
    /\ pvBranch = None
    /\ pvIdx <= Len(Candidates)
    /\ \E o \in download_zip_from_branch(pvProv, fsDirs, fsFiles,
                                         Candidates[pvIdx]) :
          IF o.exc = "ValueError"
          THEN /\ pvLast' = o.msg
               /\ pvIdx' = pvIdx + 1
               /\ fsDirs' = o.dirs
               /\ fsFiles' = o.files
               /\ UNCHANGED <<pvPc, pvRes>>
          ELSE /\ PvFinish(o)
               /\ UNCHANGED <<pvLast, pvIdx>>
    /\ pvTried' = Append(pvTried, Candidates[pvIdx])
    /\ UNCHANGED <<pvProv, pvOp, pvBranch, pvHost, reqVars, fcVars, anVars>>

\* download_zip without a branch: every candidate failed.
PvAllFailed ==
    /\ pvPc = "download_zip"
    /\ pvBranch = None
    /\ pvIdx > Len(Candidates)
    /\ pvPc' = "done"
    /\ pvRes' = PvRaised("ValueError", "all_failed:" \o pvLast)
    /\ UNCHANGED <<pvProv, pvOp, pvBranch, pvIdx, pvTried, pvLast, pvHost,
                   fsDirs, fsFiles, reqVars, fcVars, anVars>>

PvClone ==
    /\ pvPc = "clone_repository"
    /\ \E o \in clone_repository(pvProv, fsDirs, fsFiles, pvBranch) :
          PvFinish(o)
    /\ UNCHANGED <<pvProv, pvOp, pvBranch, pvIdx, pvTried, pvLast, pvHost,
                   reqVars, fcVars, anVars>>

PvDefault ==
    /\ pvPc = "get_default_branch"
    /\ \E h \in ApiOutcomes :
          /\ pvHost' = h
          /\ \E o \in DefaultBranchOn(pvProv, h, fsDirs, fsFiles) : PvFinish(o)
    /\ UNCHANGED <<pvProv, pvOp, pvBranch, pvIdx, pvTried, pvLast, reqVars,
                   fcVars, anVars>>

\* The provider's get_repo_info.
PvInfo ==
    /\ pvPc = "get_repo_info"
    /\ \E h \in ApiOutcomes :
          /\ pvHost' = h
          /\ \E o \in get_repo_info(pvProv, h, fsDirs, fsFiles) : PvFinish(o)
    /\ UNCHANGED <<pvProv, pvOp, pvBranch, pvIdx, pvTried, pvLast, reqVars,
                   fcVars, anVars>>

\* git_service.get_repo_info: the factory's provider (Generic where the
\* host-specific class cannot be constructed), every exception caught.
PvInfoService ==
    /\ pvPc = "git_service.get_repo_info"
    /\ \E h \in ApiOutcomes :
          /\ pvHost' = h
          /\ \E o \in get_repo_info(IF Instantiable(pvProv) THEN pvProv
                                                             ELSE "generic",
                                    h, fsDirs, fsFiles) :
                PvFinish(IF o.exc = "" THEN o
                         ELSE Out("", <<"url", "type">>, "", o.dirs, o.files))
    /\ UNCHANGED <<pvProv, pvOp, pvBranch, pvIdx, pvTried, pvLast, reqVars,
                   fcVars, anVars>>

PvNext ==
    \/ \E prov \in Providers, op \in PvOps, branch \in PvBranches :
          PvCall(prov, op, branch)
    \/ PvDirect
    \/ PvTry
    \/ PvAllFailed
    \/ PvClone
    \/ PvDefault
    \/ PvInfo
    \/ PvInfoService

(***************************************************************************)
(* GitProviderFactory (services/git_providers/factory.py).                 *)
(***************************************************************************)

\* The provider classes in priority order.
Registered == <<"github", "gitlab", "bitbucket", "generic">>

FcHosts == {"github.com", "GitHub.com", "gitlab.com", "bitbucket.org",
            "example.com", "[::1"}

FcPaths == { <<>>, <<"o1">>, <<"o1", "r">>, <<"github.com", "r">> }

FcUrls == {Url(h, p) : h \in FcHosts, p \in FcPaths}

\* str.lower() on the tokens of the model.
Lower(tok) == IF tok = "GitHub.com" THEN "github.com" ELSE tok

\* marker in repo_url.lower(): on the URLs of the model a marker occurs in a
\* URL exactly when it is the lower-cased host or a lower-cased path part.
Contains(url, marker) ==
    \/ Lower(url.host) = marker
    \/ \E i \in DOMAIN url.path : Lower(url.path[i]) = marker

\* urlparse raises ValueError on an unbalanced bracket in the host.
UrlparseFails(url) == url.host = "[::1"

\* Provider classes an application may register at run time: complete
\* subclasses of GitProvider that accept the URLs of one more host.
CustomProviders == {"custom1", "custom2"}

can_handle(prov, url) ==
    CASE prov = "github"    -> Contains(url, "github.com")
      [] prov = "gitlab"    -> Contains(url, "gitlab.com")
      [] prov = "bitbucket" -> Contains(url, "bitbucket.org")
      [] prov \in CustomProviders -> Contains(url, "example.com")
      [] OTHER              -> TRUE

\* provider_class(repo_url): the exception raised, "" when an instance is
\* made.
Construct(prov, url) ==
    IF ~Instantiable(prov) THEN "TypeError"
    ELSE IF UrlparseFails(url) THEN "ValueError"
    ELSE IF prov \in {"github", "bitbucket"} /\ Len(PathParts(url)) < 2
         THEN "ValueError"
    ELSE ""

FcNone == [status |-> "none", prov |-> "none", exc |-> ""]

FcInit ==
    /\ fcProviders = Registered
    /\ fcUrl = Url("", <<>>)
    /\ fcPc = "idle"
    /\ fcIdx = 1
    /\ fcRes = FcNone

FcCall(url) ==
    /\ fcPc = "idle"
    /\ fcUrl' = url
    /\ fcPc' = "loop"
    /\ UNCHANGED <<fcProviders, fcIdx, fcRes, svcVars, pvVars, anVars>>

\* One turn of the loop: the provider is probed and, if it accepts the URL,
\* instantiated; an exception of either moves on to the next provider.
FcProbe ==
    /\ fcPc = "loop"
    /\ fcIdx <= Len(fcProviders)
    /\ LET prov == fcProviders[fcIdx]
       IN  IF can_handle(prov, fcUrl) /\ Construct(prov, fcUrl) = ""
           THEN /\ fcPc' = "done"
                /\ fcRes' = [status |-> "returned", prov |-> prov, exc |-> ""]
                /\ fcIdx' = fcIdx
           ELSE /\ fcIdx' = fcIdx + 1
                /\ UNCHANGED <<fcPc, fcRes>>
    /\ UNCHANGED <<fcProviders, fcUrl, svcVars, pvVars, anVars>>

\* After the loop: GenericGitProvider(repo_url), outside any try.
FcFallback ==
    /\ fcPc = "loop"
    /\ fcIdx > Len(fcProviders)
    /\ fcPc' = "done"
    /\ fcRes' = IF Construct("generic", fcUrl) = ""
                THEN [status |-> "returned", prov |-> "generic", exc |-> ""]
                ELSE [status |-> "raised", prov |-> "none",
                      exc |-> Construct("generic", fcUrl)]
    /\ UNCHANGED <<fcProviders, fcUrl, fcIdx, svcVars, pvVars, anVars>>

FcNext ==
    \/ \E url \in FcUrls : FcCall(url)
    \/ FcProbe
    \/ FcFallback

\* list.insert(len - 1, provider) at the end of the list instead.
register_at_end(providers, provider) ==
    IF \E i \in 1..Len(providers) : providers[i] = provider
    THEN providers
    ELSE Append(providers, provider)

\* if provider not in cls._providers: cls._providers.insert(-1, provider)
register_provider(providers, provider) ==
    IF \E i \in 1..Len(providers) : providers[i] = provider
    THEN providers
    ELSE SubSeq(providers, 1, Len(providers) - 1)
         \o <<provider, providers[Len(providers)]>>

\* GitProviderFactory.register_provider(provider), between any two steps of
\* a selection: create_provider awaits each probe.
FcRegister(provider) ==
    /\ fcProviders' = register_provider(fcProviders, provider)
    /\ UNCHANGED <<fcUrl, fcPc, fcIdx, fcRes, svcVars, pvVars, anVars>>

\* Selections and registrations.
FcRegistryNext ==
    \/ FcNext
    \/ \E provider \in Providers \cup CustomProviders : FcRegister(provider)

(***************************************************************************)
(* Source analysis (services/detector_service.py, services/detectors).     *)
(* The content of a file is a sequence of tokens; blanks and line ends are *)
(* tokens of their own, so that positions and line numbers are computed    *)
(* from the content as the code computes them.                             *)
(***************************************************************************)
Tok(c, i) == IF i \in 1..Len(c) THEN c[i] ELSE ""

IsSpace(t) == t \in {" ", "\n"}

IsQuote(t) == t \in {"'", "\""}

\* [A-Za-z0-9_]+ : the words of the file universe.
Identifiers ==
    {"Greeter", "SayHello", "HelloRequest", "HelloResponse", "Echo", "Ping",
     "Msg", "User", "Query", "Mutation", "String", "users", "addUser"}

\* Words that the patterns name literally; they are [A-Za-z0-9_]+ too.
Keywords == {"service", "rpc", "returns", "stream", "message", "type",
             "extend", "app", "router", "blueprint", "socketio", "on", "event",
             "websocket", "route", "get", "post", "put", "delete", "patch",
             "options", "head", "all", "import", "def", "graphql", "apollo",
             "openapi", "swagger", "paths", "info"}

IsWord(t) == t \in Identifiers \cup Keywords

\* [A-Za-z0-9_\[\]!]+
IsTypeWord(t) == IsWord(t) \/ t \in {"[User]", "String!", "User!"}

\* [A-Z]+
UpperWords == {"GET", "POST", "PUT", "DELETE", "PATCH", "OPTIONS", "HEAD",
               "LINK", "ALL"}

\* str.upper on the verbs of the route patterns.
Upper(t) ==
    CASE t = "get" -> "GET"
      [] t = "post" -> "POST"
      [] t = "put" -> "PUT"
      [] t = "delete" -> "DELETE"
      [] t = "patch" -> "PATCH"
      [] t = "options" -> "OPTIONS"
      [] t = "head" -> "HEAD"
      [] t = "all" -> "ALL"
      [] t = "link" -> "LINK"
      [] OTHER -> t

HttpMethod == {"GET", "POST", "PUT", "DELETE", "PATCH", "OPTIONS", "HEAD"}

\* \s* from position i: the first position that holds no white space.
RECURSIVE SkipWs(_, _)
SkipWs(c, i) == IF IsSpace(Tok(c, i)) THEN SkipWs(c, i + 1) ELSE i

\* The position of the first token from i on that lies in set ts, 0 if none.
RECURSIVE NextIn(_, _, _)
NextIn(c, i, ts) ==
    IF i > Len(c) THEN 0
    ELSE IF c[i] \in ts THEN i ELSE NextIn(c, i + 1, ts)

RECURSIVE Join(_, _, _)
Join(c, i, j) == IF i > j THEN "" ELSE c[i] \o Join(c, i + 1, j)

NoMatch == [ok |-> FALSE]

\* \s*\(\s*['"](?P<path>[^'"]+)['"] from position i.
ArgAt(c, i) ==
    LET j == SkipWs(c, i)
        k == SkipWs(c, j + 1)
        q == NextIn(c, k + 1, {"'", "\""})
    IN  IF Tok(c, j) = "(" /\ IsQuote(Tok(c, k)) /\ q > k + 1
        THEN [ok |-> TRUE, path |-> Join(c, k + 1, q - 1), end |-> q + 1]
        ELSE NoMatch

\* The compiled patterns: a match that starts at position i, with its groups
\* and the position after its last token.
fastapi_route(c, i) ==
    LET a == ArgAt(c, i + 4)
    IN  IF /\ Tok(c, i) = "@"
           /\ Tok(c, i + 1) \in {"app", "router", "blueprint"}
           /\ Tok(c, i + 2) = "."
           /\ Tok(c, i + 3) \in {"get", "post", "put", "delete", "patch",
                                 "options", "head"}
           /\ a.ok
        THEN [ok |-> TRUE, start |-> i, end |-> a.end, method |-> c[i + 3],
              path |-> a.path, methods |-> <<>>, has |-> FALSE]
        ELSE NoMatch

\* (\s*,\s*methods=\[(?P<methods>[^\]]+)\])? from position e.
MethodsAt(c, j, k, m) ==
    IF Tok(c, j) = "," /\ Tok(c, k) = "methods=[" /\ m > k + 1
    THEN [ok |-> TRUE, end |-> m + 1, methods |-> SubSeq(c, k + 1, m - 1)]
    ELSE NoMatch

FlaskWith(c, i, a, lst) ==
    [ok |-> TRUE, start |-> i, end |-> IF lst.ok THEN lst.end ELSE a.end,
     method |-> "", path |-> a.path,
     methods |-> IF lst.ok THEN lst.methods ELSE <<>>, has |-> lst.ok]

FlaskArg(c, i, a) ==
    IF a.ok
    THEN FlaskWith(c, i, a,
             MethodsAt(c, SkipWs(c, a.end), SkipWs(c, SkipWs(c, a.end) + 1),
                       NextIn(c, SkipWs(c, SkipWs(c, a.end) + 1) + 1, {"]"})))
    ELSE NoMatch

flask_route(c, i) ==
    IF /\ Tok(c, i) = "@"
       /\ Tok(c, i + 1) \in {"app", "blueprint"}
       /\ Tok(c, i + 2) = "."
       /\ Tok(c, i + 3) = "route"
    THEN FlaskArg(c, i, ArgAt(c, i + 4))
    ELSE NoMatch

express_route(c, i) ==
    LET a == ArgAt(c, i + 3)
    IN  IF /\ Tok(c, i) \in {"app", "router"}
           /\ Tok(c, i + 1) = "."
           /\ Tok(c, i + 2) \in {"get", "post", "put", "delete", "patch",
                                 "options", "all"}
           /\ a.ok
        THEN [ok |-> TRUE, start |-> i, end |-> a.end, method |-> c[i + 2],
              path |-> a.path, methods |-> <<>>, has |-> FALSE]
        ELSE NoMatch

spring_route(c, i) ==
    LET a == ArgAt(c, i + 2)
    IN  IF /\ Tok(c, i) = "@"
           /\ Tok(c, i + 1) \in {"GetMapping", "PostMapping", "PutMapping",
                                 "DeleteMapping", "RequestMapping"}
        THEN [ok |-> TRUE, start |-> i, end |-> IF a.ok THEN a.end ELSE i + 2,
              method |-> c[i + 1], path |-> IF a.ok THEN a.path ELSE "",
              methods |-> <<>>, has |-> FALSE]
        ELSE NoMatch

websocket_route(c, i) ==
    LET a == ArgAt(c, i + 4)
    IN  IF /\ Tok(c, i) = "@"
           /\ Tok(c, i + 1) \in {"app", "router"}
           /\ Tok(c, i + 2) = "."
           /\ Tok(c, i + 3) = "websocket"
           /\ a.ok
        THEN [ok |-> TRUE, start |-> i, end |-> a.end, path |-> a.path]
        ELSE NoMatch

socketio(c, i) ==
    LET s == IF Tok(c, i) = "@" THEN i + 1 ELSE i
        a == ArgAt(c, s + 3)
    IN  IF /\ Tok(c, s) = "socketio"
           /\ Tok(c, s + 1) = "."
           /\ Tok(c, s + 2) \in {"on", "event"}
           /\ a.ok
        THEN [ok |-> TRUE, start |-> i, end |-> a.end, event |-> a.path]
        ELSE NoMatch

\* (service|message)\s+(?P<name>[A-Za-z0-9_]+)\s*{
BlockHead(word, c, i) ==
    LET j == SkipWs(c, i + 1)
        k == SkipWs(c, j + 1)
    IN  IF /\ Tok(c, i) = word
           /\ IsSpace(Tok(c, i + 1))
           /\ IsWord(Tok(c, j))
           /\ Tok(c, k) = "{"
        THEN [ok |-> TRUE, start |-> i, end |-> k + 1, name |-> c[j]]
        ELSE NoMatch

\* \s*\(\s*(?P<t>[A-Za-z0-9_\.]+)\s*\) from position i.
TypeArgAt(c, i) ==
    LET j == SkipWs(c, i)
        k == SkipWs(c, j + 1)
        l == SkipWs(c, k + 1)
    IN  IF Tok(c, j) = "(" /\ IsWord(Tok(c, k)) /\ Tok(c, l) = ")"
        THEN [ok |-> TRUE, t |-> c[k], end |-> l + 1]
        ELSE NoMatch

grpc_method(c, i) ==
    LET j == SkipWs(c, i + 1)
        a == TypeArgAt(c, j + 1)
        r == SkipWs(c, a.end)
        b == TypeArgAt(c, r + 1)
    IN  IF /\ Tok(c, i) = "rpc"
           /\ IsSpace(Tok(c, i + 1))
           /\ IsWord(Tok(c, j))
           /\ a.ok
           /\ Tok(c, r) = "returns"
           /\ b.ok
        THEN [ok |-> TRUE, start |-> i, end |-> b.end, method |-> c[j],
              input |-> a.t, output |-> b.t]
        ELSE NoMatch

\* type\s+(?P<type>[A-Za-z0-9_]+)
graphql_type(c, i) ==
    LET j == SkipWs(c, i + 1)
    IN  IF Tok(c, i) = "type" /\ IsSpace(Tok(c, i + 1)) /\ IsWord(Tok(c, j))
        THEN [ok |-> TRUE, start |-> i, end |-> j + 1, type |-> c[j]]
        ELSE NoMatch

\* extend type (Query|Mutation) {(?P<block>.*?)} with re.DOTALL
ExtendBlock(word, c, i) ==
    LET e == NextIn(c, i + 7, {"}"})
    IN  IF /\ i + 6 <= Len(c)
           /\ SubSeq(c, i, i + 6) = <<"extend", " ", "type", " ", word, " ", "{">>
           /\ e > 0
        THEN [ok |-> TRUE, start |-> i, end |-> e + 1,
              block |-> SubSeq(c, i + 7, e - 1)]
        ELSE NoMatch

MatchAt(pat, c, i) ==
    CASE pat = "fastapi_route" -> fastapi_route(c, i)
      [] pat = "flask_route" -> flask_route(c, i)
      [] pat = "express_route" -> express_route(c, i)
      [] pat = "spring_route" -> spring_route(c, i)
      [] pat = "websocket_route" -> websocket_route(c, i)
      [] pat = "socketio" -> socketio(c, i)
      [] pat = "grpc_service" -> BlockHead("service", c, i)
      [] pat = "grpc_message" -> BlockHead("message", c, i)
      [] pat = "grpc_method" -> grpc_method(c, i)
      [] pat = "graphql_type" -> graphql_type(c, i)
      [] pat = "graphql_query" -> ExtendBlock("Query", c, i)
      [] pat = "graphql_mutation" -> ExtendBlock("Mutation", c, i)

\* pattern.finditer(content): the matches from left to right, none
\* overlapping another.
RECURSIVE finditer(_, _, _)
FindFrom(pat, c, i, m) ==
    IF m.ok THEN <<m>> \o finditer(pat, c, m.end) ELSE finditer(pat, c, i + 1)

finditer(pat, c, i) ==
    IF i > Len(c) THEN <<>> ELSE FindFrom(pat, c, i, MatchAt(pat, c, i))

\* content[:start].count('\n') + 1
RECURSIVE LineOf(_, _)
LineOf(c, start) ==
    IF start <= 1 THEN 1
    ELSE (IF c[start - 1] = "\n" THEN 1 ELSE 0) + LineOf(c, start - 1)

\* re.findall(r'[\'"]([A-Z]+)[\'"]', methods_str)
RECURSIVE findall_methods(_, _)
findall_methods(ms, i) ==
    IF i + 2 > Len(ms) THEN <<>>
    ELSE IF IsQuote(ms[i]) /\ ms[i + 1] \in UpperWords /\ IsQuote(ms[i + 2])
         THEN <<ms[i + 1]>> \o findall_methods(ms, i + 3)
         ELSE findall_methods(ms, i + 1)

RECURSIVE Flatten(_)
Flatten(ss) == IF ss = <<>> THEN <<>> ELSE Head(ss) \o Flatten(Tail(ss))

Map1(s, F(_)) == [i \in 1..Len(s) |-> F(s[i])]

RESTEndpoint(name, path, method, file, line) ==
    [type |-> "REST", name |-> name, path |-> path, method |-> method,
     source_file |-> file, source_line |-> line]

Raised(exc) == [exc |-> exc, apis |-> <<>>]

Returned(apis) == [exc |-> "", apis |-> apis]

spring_method(mapping) ==
    CASE mapping = "GetMapping" -> "GET"
      [] mapping = "PostMapping" -> "POST"
      [] mapping = "PutMapping" -> "PUT"
      [] mapping = "DeleteMapping" -> "DELETE"
      [] OTHER -> "GET"

RestOf(raw, content, file) ==
    IF \E k \in 1..Len(raw) : raw[k].v \notin HttpMethod
    THEN Raised("ValueError")
    ELSE Returned([k \in 1..Len(raw) |->
             RESTEndpoint(raw[k].n \o " " \o raw[k].m.path, raw[k].m.path,
                          raw[k].v, file, LineOf(content, raw[k].m.start))])

FlaskMethods(m, ms) == [k \in 1..Len(ms) |-> [n |-> ms[k], v |-> Upper(ms[k]), m |-> m]]

\* The REST recogniser: the four route styles in turn.  An endpoint is built
\* with HttpMethod(...), which raises ValueError for a word that is no member.
detect_rest_endpoints(content, file) ==
    LET fast(m) == <<[n |-> Upper(m.method), v |-> Upper(m.method), m |-> m]>>
        flask(m) == FlaskMethods(m, IF m.has THEN findall_methods(m.methods, 1)
                                             ELSE <<"GET">>)
        expr(m) == <<[n |-> Upper(m.method),
                      v |-> IF Upper(m.method) # "ALL" THEN Upper(m.method)
                                                       ELSE "GET",
                      m |-> m]>>
        spr(m) == <<[n |-> spring_method(m.method),
                     v |-> spring_method(m.method), m |-> m]>>
    IN  RestOf(Flatten(Map1(finditer("fastapi_route", content, 1), fast))
               \o Flatten(Map1(finditer("flask_route", content, 1), flask))
               \o Flatten(Map1(finditer("express_route", content, 1), expr))
               \o Flatten(Map1(finditer("spring_route", content, 1), spr)),
               content, file)

WebSocketAPI(name, endpoint, evs, src, line) ==
    [type |-> "WebSocket", name |-> name, endpoint |-> endpoint,
     events |-> evs, source_file |-> src, source_line |-> line]

\* The hash seeds an interpreter process may start with (PYTHONHASHSEED is
\* random unless set); a seed fixes the iteration order of a set of strings.
HashSeeds == {0, 1}

\* events.add(event) for every match, then list(events): the distinct
\* events, in first-match order under seed 0 and in the reverse under seed 1.
list_of_events(evs) ==
    LET names == [k \in 1..Len(evs) |-> evs[k].event]
        first == SelectSeq([k \in 1..Len(names) |-> k],
                           LAMBDA k : \A j \in 1..(k - 1) : names[j] # names[k])
        n == Len(first)
    IN  [k \in 1..n |-> names[first[IF anSeed = 0 THEN k ELSE n + 1 - k]]]

WsOf(routes, evs, content, src, stem) ==
    Returned([k \in 1..Len(routes) |->
                 WebSocketAPI("WebSocket " \o routes[k].path, routes[k].path,
                              <<>>, src, LineOf(content, routes[k].start))]
             \o (IF evs # <<>>
                 THEN <<WebSocketAPI("SocketIO " \o stem, "/socket.io",
                                     list_of_events(evs), src, 1)>>
                 ELSE <<>>))

\* The WebSocket recogniser: one API per websocket route, and one for all
\* Socket.IO events of the file together.
detect_websocket_apis(content, src, stem) ==
    WsOf(finditer("websocket_route", content, 1),
         finditer("socketio", content, 1), content, src, stem)

\* len(token)
StrLen(t) ==
    CASE t \in {"HelloResponse"} -> 13
      [] t \in {"HelloRequest"} -> 12
      [] t \in {"SayHello", "Mutation"} -> 8
      [] t \in {"service", "returns", "message", "Greeter", "addUser"} -> 7
      [] t \in {"stream", "extend", "String"} -> 6
      [] t \in {"Query", "users"} -> 5
      [] t \in {"Echo", "Ping", "User", "type"} -> 4
      [] t \in {"rpc", "Msg"} -> 3
      [] OTHER -> 1

RECURSIVE CharPos(_, _)
CharPos(c, i) == IF i <= 1 THEN 0 ELSE CharPos(c, i - 1) + StrLen(c[i - 1])

\* 'stream' in s[lo:hi], with Python's reading of a negative lo.
StreamIn(b, lo, hi) ==
    LET len == CharPos(b, Len(b) + 1)
        from == IF lo >= 0 THEN lo ELSE IF len + lo > 0 THEN len + lo ELSE 0
        to == IF hi > len THEN len ELSE hi
    IN  \E k \in 1..Len(b) :
            b[k] = "stream" /\ CharPos(b, k) >= from /\ CharPos(b, k) + 6 <= to

\* The end of the block that opens after position i: the brace that brings
\* the count of open braces back to zero, or the end of the content.
RECURSIVE BlockEnd(_, _, _)
BlockEnd(c, i, n) ==
    IF i > Len(c) THEN Len(c)
    ELSE IF c[i] = "{" THEN BlockEnd(c, i + 1, n + 1)
    ELSE IF c[i] = "}" /\ n - 1 = 0 THEN i
    ELSE IF c[i] = "}" THEN BlockEnd(c, i + 1, n - 1)
    ELSE BlockEnd(c, i + 1, n)

GRPCService(name, methods, message_types, src, line) ==
    [type |-> "gRPC", name |-> name, service_name |-> name,
     methods |-> methods, message_types |-> message_types,
     source_file |-> src, source_line |-> line]

\* The methods of one service block.
GrpcMethods(b, ms) ==
    [k \in 1..Len(ms) |->
        [name |-> ms[k].method, input_type |-> ms[k].input,
         output_type |-> ms[k].output,
         streaming |-> StreamIn(b, CharPos(b, ms[k].start) - 10,
                                CharPos(b, ms[k].end) + 10)]]

BlockMethods(b) == GrpcMethods(b, finditer("grpc_method", b, 1))

GrpcOf(impl, svcs, msgs, meths, content, src) ==
    IF impl = "analyzer" /\ \E k \in 1..Len(svcs) : meths[k] # <<>>
    THEN Raised("IndexError")
    ELSE Returned([k \in 1..Len(svcs) |->
             GRPCService(svcs[k].name, meths[k],
                         [j \in 1..Len(msgs) |-> msgs[j].name], src,
                         LineOf(content, svcs[k].start))])

ServiceMethods(content, svcs) ==
    [k \in 1..Len(svcs) |->
        BlockMethods(SubSeq(content, svcs[k].start,
                            BlockEnd(content, svcs[k].start, 0)))]

GrpcIn(impl, svcs, content, src) ==
    GrpcOf(impl, svcs, finditer("grpc_message", content, 1),
           ServiceMethods(content, svcs), content, src)

\* The gRPC recogniser.  The method pattern of detectors/grpc_detector.py
\* names its output group "o" while the code reads group "output":
\* IndexError at the first method.
detect_grpc_services(impl, content, src) ==
    GrpcIn(impl, finditer("grpc_service", content, 1), content, src)

\* str.split('\n')
RECURSIVE Split(_, _, _)
Split(c, i, cur) ==
    IF i > Len(c) THEN <<cur>>
    ELSE IF c[i] = "\n" THEN <<cur>> \o Split(c, i + 1, <<>>)
    ELSE Split(c, i + 1, Append(cur, c[i]))

\* str.strip()
RECURSIVE Strip(_)
Strip(l) ==
    IF l = <<>> THEN l
    ELSE IF IsSpace(Head(l)) THEN Strip(Tail(l))
    ELSE IF IsSpace(l[Len(l)]) THEN Strip(SubSeq(l, 1, Len(l) - 1))
    ELSE l

\* \s*:\s*([A-Za-z0-9_\[\]!]+) from position p of a line.
FieldTail(l, j, k) ==
    IF Tok(l, j) = ":" /\ IsTypeWord(Tok(l, k))
    THEN [ok |-> TRUE, name |-> l[1], return_type |-> l[k]]
    ELSE NoMatch

FieldTailAt(l, p) == FieldTail(l, SkipWs(l, p), SkipWs(l, SkipWs(l, p) + 1))

FieldWith(l, closes) ==
    IF ~IsWord(Tok(l, 1)) THEN NoMatch
    ELSE IF Tok(l, 2) = "(" /\ closes # {}
         THEN FieldTailAt(l, (CHOOSE p \in closes : \A q \in closes : q <= p) + 1)
         ELSE FieldTailAt(l, 2)

\* re.match(r'([A-Za-z0-9_]+)(?:\(.*\))?\s*:\s*([A-Za-z0-9_\[\]!]+)', line)
field_match(l) ==
    FieldWith(l, {p \in 3..Len(l) : l[p] = ")" /\ FieldTailAt(l, p + 1).ok})

FieldsFrom(lines, fm) ==
    LET keep == SelectSeq([k \in 1..Len(lines) |-> k],
                          LAMBDA k : /\ lines[k] # <<>>
                                     /\ Head(lines[k]) # "#"
                                     /\ fm[k].ok)
    IN  [k \in 1..Len(keep) |->
            [name |-> fm[keep[k]].name, return_type |-> fm[keep[k]].return_type]]

FieldsOfLines(lines) ==
    FieldsFrom(lines, [k \in 1..Len(lines) |-> field_match(lines[k])])

FieldsOfBlocks(ms) ==
    Flatten([k \in 1..Len(ms) |->
                FieldsOfLines(Map1(Split(Strip(ms[k].block), 1, <<>>), Strip))])

\* The fields declared in the blocks of one extend pattern.
BlockFields(pat, content) == FieldsOfBlocks(finditer(pat, content, 1))

GraphQLAPI(name, types, queries, mutations, src) ==
    [type |-> "GraphQL", name |-> name, types |-> types, queries |-> queries,
     mutations |-> mutations, source_file |-> src, source_line |-> 1]

GqlOf(types, queries, mutations, src, stem) ==
    Returned(IF types # <<>> \/ queries # <<>> \/ mutations # <<>>
             THEN <<GraphQLAPI("GraphQL " \o stem, types, queries, mutations,
                               src)>>
             ELSE <<>>)

TypeNames(tm) ==
    SelectSeq([k \in 1..Len(tm) |-> tm[k].type],
              LAMBDA t : t \notin {"Query", "Mutation", "Subscription"})

\* The GraphQL recogniser: one API for the file if it declares anything.
detect_graphql_apis(content, src, stem) ==
    GqlOf(TypeNames(finditer("graphql_type", content, 1)),
          BlockFields("graphql_query", content),
          BlockFields("graphql_mutation", content), src, stem)

LoadLines(ls) ==
    LET entry(l) == /\ Len(l) \in {2, 4}
                    /\ IsWord(l[1])
                    /\ l[2] = ":"
                    /\ Len(l) = 4 => (l[3] = " " /\ l[4] \notin {"[", "{", ":"})
    IN  IF ls = <<>> THEN [kind |-> "null", map |-> <<>>]
        ELSE IF \E k \in 1..Len(ls) : ~entry(ls[k])
             THEN [kind |-> "error", map |-> <<>>]
             ELSE [kind |-> "mapping",
                   map |-> [k \in 1..Len(ls) |->
                               [key |-> ls[k][1],
                                val |-> IF Len(ls[k]) = 4 THEN ls[k][4]
                                                          ELSE "~"]]]

\* yaml.safe_load / json.load of a document of "key: value" lines: the keys
\* and values of the mapping, "null" for an empty document, "error" when a
\* line is no entry or opens a flow collection it does not close.
safe_load(content) ==
    LoadLines(SelectSeq(Split(content, 1, <<>>), LAMBDA l : Strip(l) # <<>>))

HasEntry(doc, key) == \E k \in 1..Len(doc.map) : doc.map[k].key = key

\* dict.get(key, default); a repeated key keeps its last value.
GetEntry(doc, key, default) ==
    IF HasEntry(doc, key)
    THEN doc.map[CHOOSE k \in 1..Len(doc.map) :
                    /\ doc.map[k].key = key
                    /\ \A j \in (k + 1)..Len(doc.map) : doc.map[j].key # key].val
    ELSE default

OpenAPISpec(name, version, src) ==
    [type |-> "OpenAPI", name |-> name, version |-> version,
     source_file |-> src]

SpecFrom(f, src, doc) ==
    IF /\ doc.kind = "mapping"
       /\ HasEntry(doc, "swagger") \/ HasEntry(doc, "openapi")
       /\ HasEntry(doc, "paths")
    THEN <<OpenAPISpec(f.stem,
                       GetEntry(doc, "openapi",
                                GetEntry(doc, "swagger", "unknown")), src)>>
    ELSE <<>>

\* What one candidate file adds to the specs: a failure to open, to parse or
\* to read the document as a mapping is logged and adds nothing.
openapi_spec_of(f, src) ==
    IF f.readable THEN SpecFrom(f, src, safe_load(f.content)) ELSE <<>>

(***************************************************************************)
(* The analysis of one source tree.  detect_from_upload and                *)
(* detect_from_github end in it unless staging or retrieval failed; the    *)
(* tree is a listing of files below the root handed to the analysis.       *)
(***************************************************************************)
File(dir, stem, suffix, content, readable) ==
    [dir |-> dir, stem |-> stem, suffix |-> suffix, content |-> content,
     readable |-> readable]

\* The files a tree is drawn from.
FileUniverse ==
    {
      File(<<>>, "main", ".py",
           <<"import", "\n", "@", "app", ".", "get", "(", "'",
             "/items/{id}", "'", ")", "\n", "def">>,
           TRUE),
      File(<<"api">>, "views", ".py",
           <<"@", "blueprint", ".", "post", "(", "\"", "/b", "\"", ")">>,
           TRUE),
      File(<<"api">>, "routes", ".py",
           <<"@", "app", ".", "route", "(", "'", "/g", "'", ")", "\n",
             "@", "blueprint", ".", "route", "(", "'", "/h", "'", ",", " ",
             "methods=[", "'", "GET", "'", ",", " ", "'", "POST", "'", "]",
             ")">>,
           TRUE),
      File(<<>>, "srv", ".js",
           <<"app", ".", "all", "(", "'", "/e", "'", ")", "\n", "import",
             " ", "graphql", "\n", "type", " ", "User">>,
           TRUE),
      File(<<>>, "bad", ".py",
           <<"@", "app", ".", "websocket", "(", "'", "/w", "'", ")", "\n",
             "@", "app", ".", "route", "(", "'", "/f", "'", ",", " ",
             "methods=[", "'", "LINK", "'", "]", ")">>,
           TRUE),
      File(<<>>, "secret", ".py",
           <<"@", "blueprint", ".", "post", "(", "\"", "/b", "\"", ")">>,
           FALSE),
      File(<<"api">>, "ws", ".py",
           <<"@", "app", ".", "websocket", "(", "'", "/ws", "'", ")", "\n",
             "@", "socketio", ".", "on", "(", "'", "msg", "'", ")", "\n",
             "@", "socketio", ".", "on", "(", "'", "join", "'", ")", "\n",
             "socketio", ".", "event", "(", "'", "msg", "'", ")">>,
           TRUE),
      File(<<"proto">>, "greeter", ".proto",
           <<"service", " ", "Greeter", " ", "{", " ", "rpc", " ",
             "SayHello", " ", "(", "HelloRequest", ")", " ", "returns", " ",
             "(", "HelloResponse", ")", ";", " ", "}", "\n", "message", " ",
             "Msg", " ", "{", "}", "\n", "service", " ", "Echo", " ", "{",
             " ", "rpc", " ", "Ping", " ", "(", "Msg", ")", " ", "returns",
             " ", "(", "Msg", ")", ";", " ", "}">>,
           TRUE),
      File(<<>>, "schema", ".graphql",
           <<"type", " ", "User", " ", "{", "}", "\n", "extend", " ",
             "type", " ", "Query", " ", "{", "\n", " ", "users", ":", " ",
             "[User]", "\n", "}">>,
           TRUE),
      File(<<"docs">>, "openapi", ".yaml",
           <<"openapi", ":", " ", "3.0.0", "\n", "paths", ":", "\n">>,
           TRUE),
      File(<<>>, "api-spec", ".yml",
           <<"swagger", ":", " ", "2.0.0", "\n", "paths", ":", "\n">>,
           TRUE),
      File(<<>>, "openapi", ".yaml",
           <<"openapi", ":", " ", "3.0.0", "\n", "paths", ":", " ", "[">>,
           TRUE),
      File(<<"node_modules">>, "x", ".js",
           <<"app", ".", "all", "(", "'", "/e", "'", ")", "\n", "import",
             " ", "graphql", "\n", "type", " ", "User">>,
           TRUE),
      File(<<".idea">>, "x", ".py",
           <<"@", "blueprint", ".", "post", "(", "\"", "/b", "\"", ")">>,
           TRUE),
      File(<<"vendor">>, "v", ".py",
           <<"@", "blueprint", ".", "post", "(", "\"", "/b", "\"", ")">>,
           TRUE),
      File(<<>>, "README", ".md",
           <<"@", "blueprint", ".", "post", "(", "\"", "/b", "\"", ")">>,
           TRUE)
    }

\* The directories handed to the analysis: an extraction directory, and the
\* single top-level directory of an archive of a repository named .github.
Roots == { TEMP_DIR \o <<"r">>, TEMP_DIR \o <<"r", ".github-main">> }

Impls == {"service", "analyzer"}

\* Path(root) / dir / name, and str(path.relative_to(root))
PathOf(root, f) == root \o f.dir \o <<f.stem \o f.suffix>>

relative_to(p, root) == SubSeq(p, Len(root) + 1, Len(p))

\* The listings of at most MaxFiles files: os.walk and glob visit the files
\* of a directory together and a directory before the directories below it;
\* the order is otherwise the file system's.
Listings ==
    LET trees == {t \in SUBSET FileUniverse : Cardinality(t) <= MaxFiles}
        seqs(t) == {w \in [1..Cardinality(t) -> t] :
                       \A i, j \in 1..Cardinality(t) : i # j => w[i] # w[j]}
        walk(w) == \A i, j \in 1..Len(w) :
                      /\ (i < j /\ w[i].dir = w[j].dir) =>
                            \A k \in i..j : w[k].dir = w[i].dir
                      /\ (w[i].dir # w[j].dir /\ IsPrefix(w[i].dir, w[j].dir))
                            => i < j
    IN  UNION {{w \in seqs(t) : walk(w)} : t \in trees}

StatKeys == {"REST", "WebSocket", "gRPC", "GraphQL", "OpenAPI", "total"}

\* AnalysisResult(project_name=..., source=...): the defaults of the model.
AnalysisResult == [apis |-> <<>>, stats |-> [k \in StatKeys |-> 0],
                   errors |-> <<>>]

NoLists == [rest |-> <<>>, ws |-> <<>>, grpc |-> <<>>, gql |-> <<>>]

AnInit ==
    /\ anPc = "idle"
    /\ anImpl = "none"
    /\ anRoot = <<>>
    /\ anTree = <<>>
    /\ anFound = <<>>
    /\ anCode = <<>>
    /\ anIdx = 1
    /\ anLists = NoLists
    /\ anResult = AnalysisResult
    /\ anSeed = 0
    /\ anPrev = <<>>

\* Staging or retrieval failed: the entry point's handler builds the result.
AnRetrievalError ==
    /\ anPc = "idle"
    /\ \E msg \in {"invalid_url", "download_failed", "bad_zip"} :
          anResult' = [AnalysisResult EXCEPT !.errors = <<[message |-> msg]>>]
    /\ anPc' = "done"
    /\ UNCHANGED <<anImpl, anRoot, anTree, anFound, anCode, anIdx, anLists,
                   anSeed, anPrev, svcVars, pvVars, fcVars>>

\* The seeds to tell apart for a tree: a seed shows only in the order of a
\* set with two members, so one seed stands for all where no file has two
\* distinct Socket.IO events.
SeedsFor(w) ==
    IF \E k \in 1..Len(w) :
          Len(list_of_events(finditer("socketio", w[k].content, 1))) >= 2
    THEN HashSeeds ELSE {0}

\* The analysis is entered with a tree, in a process with some hash seed.
AnStart(impl, root, w) ==
    /\ anPc = "idle"
    /\ anImpl' = impl
    /\ anRoot' = root
    /\ anTree' = w
    /\ anResult' = AnalysisResult
    /\ anSeed' \in SeedsFor(w)
    /\ anPc' = "openapi"
    /\ UNCHANGED <<anFound, anCode, anIdx, anLists, anPrev, svcVars, pvVars,
                   fcVars>>

\* The analysis is entered once more with the same implementation, root and
\* tree, possibly in another process; the first result is kept for comparison.
AnAgain ==
    /\ anPc = "done"
    /\ anImpl # "none"
    /\ anPrev = <<>>
    /\ anPrev' = <<anResult>>
    /\ anResult' = AnalysisResult
    /\ anSeed' \in SeedsFor(anTree)
    /\ anFound' = <<>>
    /\ anCode' = <<>>
    /\ anIdx' = 1
    /\ anLists' = NoLists
    /\ anPc' = "openapi"
    /\ UNCHANGED <<anImpl, anRoot, anTree, svcVars, pvVars, fcVars>>

openapi_patterns ==
    <<"openapi.yaml", "openapi.yml", "openapi.json", "swagger.yaml",
      "swagger.yml", "swagger.json", "api-spec.yaml", "api-spec.yml",
      "api-spec.json">>

\* Path(root).glob('**/' + name) for each pattern in turn.
GlobAll(w) ==
    Flatten([p \in 1..Len(openapi_patterns) |->
                SelectSeq(w, LAMBDA f : f.stem \o f.suffix = openapi_patterns[p])])

detect_openapi_specs(root, found) ==
    Flatten([k \in 1..Len(found) |->
                openapi_spec_of(found[k],
                                relative_to(PathOf(root, found[k]), root))])

\* if openapi_specs: result.apis.extend(...); result.stats["OpenAPI"] = len(...)
WithSpecs(result, specs) ==
    IF specs # <<>>
    THEN [result EXCEPT !.apis = @ \o specs, !.stats["OpenAPI"] = Len(specs)]
    ELSE result

\* The OpenAPI pass.
AnOpenApi ==
    /\ anPc = "openapi"
    /\ anFound' = GlobAll(anTree)
    /\ anResult' = WithSpecs(anResult,
                             detect_openapi_specs(anRoot, GlobAll(anTree)))
    /\ anPc' = "walk"
    /\ UNCHANGED <<anImpl, anRoot, anTree, anCode, anIdx, anLists, anSeed,
                   anPrev, svcVars, pvVars, fcVars>>

supported_extensions ==
    {".py", ".js", ".ts", ".java", ".go", ".rb", ".php", ".cs", ".proto",
     ".graphql", ".gql", ".yaml", ".yml", ".json"}

\* part.startswith('.')
StartsWithDot(part) == part \in {".git", ".idea", ".github", ".github-main"}

SkippedDir(parts) ==
    \E i \in 1..Len(parts) :
        \/ StartsWithDot(parts[i])
        \/ parts[i] \in {"node_modules", "venv", ".git", ".idea", "__pycache__"}

\* A walk that tests the extension only.
collect_by_extension(root, w) ==
    SelectSeq(w, LAMBDA f : f.suffix \in supported_extensions)

\* The walk: Path(root).parts is tested, the root's own parts included.
collect_code_files(root, w) ==
    SelectSeq(w, LAMBDA f :
        /\ ~SkippedDir(root \o f.dir)
        /\ f.suffix \in supported_extensions
        /\ \A i \in 1..Len(PathOf(root, f)) :
              PathOf(root, f)[i] \notin {"vendor", "dist", "build"})

AnCollect ==
    /\ anPc = "walk"
    /\ anCode' = collect_code_files(anRoot, anTree)
    /\ anIdx' = 1
    /\ anLists' = NoLists
    /\ anPc' = "files"
    /\ UNCHANGED <<anImpl, anRoot, anTree, anFound, anResult, anSeed, anPrev,
                   svcVars, pvVars, fcVars>>

\* 'graphql' in content or 'apollo' in content
MentionsGraphql(content) ==
    \E i \in 1..Len(content) : content[i] \in {"graphql", "apollo"}

Extended(lists, rest, ws, grpc, gql) ==
    [rest |-> lists.rest \o rest, ws |-> lists.ws \o ws,
     grpc |-> lists.grpc \o grpc, gql |-> lists.gql \o gql]

\* A loop body that runs the WebSocket recogniser before the REST one.
RecognisedWsFirst(f, lists, rest, ws, grpc, gql) ==
    IF ~f.readable THEN [exc |-> "PermissionError", lists |-> lists]
    ELSE IF rest.exc # ""
         THEN [exc |-> rest.exc,
               lists |-> Extended(lists, <<>>, ws.apis, <<>>, <<>>)]
    ELSE IF grpc.exc # ""
         THEN [exc |-> grpc.exc,
               lists |-> Extended(lists, rest.apis, ws.apis, <<>>, <<>>)]
    ELSE [exc |-> "",
          lists |-> Extended(lists, rest.apis, ws.apis, grpc.apis, gql.apis)]

Recognised(f, lists, rest, ws, grpc, gql) ==
    IF ~f.readable THEN [exc |-> "PermissionError", lists |-> lists]
    ELSE IF rest.exc # "" THEN [exc |-> rest.exc, lists |-> lists]
    ELSE IF ws.exc # ""
         THEN [exc |-> ws.exc,
               lists |-> Extended(lists, rest.apis, <<>>, <<>>, <<>>)]
    ELSE IF grpc.exc # ""
         THEN [exc |-> grpc.exc,
               lists |-> Extended(lists, rest.apis, ws.apis, <<>>, <<>>)]
    ELSE IF gql.exc # ""
         THEN [exc |-> gql.exc,
               lists |-> Extended(lists, rest.apis, ws.apis, grpc.apis, <<>>)]
    ELSE [exc |-> "",
          lists |-> Extended(lists, rest.apis, ws.apis, grpc.apis, gql.apis)]

AnalyzeWith(impl, f, lists, src) ==
    Recognised(f, lists,
        IF f.suffix \in {".py", ".js", ".ts", ".java", ".php", ".rb", ".cs"}
        THEN detect_rest_endpoints(f.content, src) ELSE Returned(<<>>),
        IF f.suffix \in {".py", ".js", ".ts"}
        THEN detect_websocket_apis(f.content, src, f.stem) ELSE Returned(<<>>),
        IF f.suffix = ".proto"
        THEN detect_grpc_services(impl, f.content, src) ELSE Returned(<<>>),
        IF \/ f.suffix \in {".graphql", ".gql"}
           \/ f.suffix \in {".js", ".ts"} /\ MentionsGraphql(f.content)
        THEN detect_graphql_apis(f.content, src, f.stem) ELSE Returned(<<>>))

\* One turn of the loop over the collected files: the lists after it and the
\* exception that ended it, "" if none.  A recogniser that raises leaves the
\* lists the earlier recognisers of the turn have extended.
AnalyzeFile(impl, root, f, lists) ==
    AnalyzeWith(impl, f, lists, relative_to(PathOf(root, f), root))

\* A handler that logs the failure and records nothing.
OnFileErrorSilent(errors, src, exc) == errors

\* except Exception: the error record of the file; the loop goes on.
OnFileError(errors, src, exc) ==
    Append(errors, [file |-> src, message |-> exc])

FileDone(f, o) ==
    /\ anLists' = o.lists
    /\ anResult' = IF o.exc = "" THEN anResult
                   ELSE [anResult EXCEPT !.errors =
                            OnFileError(@, relative_to(PathOf(anRoot, f), anRoot),
                                        o.exc)]

AnFile ==
    /\ anPc = "files"
    /\ anIdx <= Len(anCode)
    /\ FileDone(anCode[anIdx],
                AnalyzeFile(anImpl, anRoot, anCode[anIdx], anLists))
    /\ anIdx' = anIdx + 1
    /\ UNCHANGED <<anPc, anImpl, anRoot, anTree, anFound, anCode, anSeed,
                   anPrev, svcVars, pvVars, fcVars>>

\* The four lists appended with WebSocket before REST.
ExtendApisSwapped(apis, lists) ==
    apis \o lists.ws \o lists.rest \o lists.grpc \o lists.gql

\* result.apis.extend(...) four times.
ExtendApis(apis, lists) ==
    apis \o lists.rest \o lists.ws \o lists.grpc \o lists.gql

\* Statistics whose total counts the four lists of the walk only.
UpdateStatsWalkOnly(stats, lists, apis) ==
    [stats EXCEPT !["REST"] = Len(lists.rest),
                  !["WebSocket"] = Len(lists.ws),
                  !["gRPC"] = Len(lists.grpc),
                  !["GraphQL"] = Len(lists.gql),
                  !["total"] = Len(lists.rest) + Len(lists.ws)
                               + Len(lists.grpc) + Len(lists.gql)]

\* result.stats[...] = len(...)
UpdateStats(stats, lists, apis) ==
    [stats EXCEPT !["REST"] = Len(lists.rest),
                  !["WebSocket"] = Len(lists.ws),
                  !["gRPC"] = Len(lists.grpc),
                  !["GraphQL"] = Len(lists.gql),
                  !["total"] = Len(apis)]

Finished(result, lists, apis) ==
    [result EXCEPT !.apis = apis, !.stats = UpdateStats(@, lists, apis)]

AnFinish ==
    /\ anPc = "files"
    /\ anIdx > Len(anCode)
    /\ anResult' = Finished(anResult, anLists,
                            ExtendApis(anResult.apis, anLists))
    /\ anPc' = "done"
    /\ UNCHANGED <<anImpl, anRoot, anTree, anFound, anCode, anIdx, anLists,
                   anSeed, anPrev, svcVars, pvVars, fcVars>>

AnNext ==
    \/ AnRetrievalError
    \/ \E impl \in Impls, root \in Roots, w \in Listings : AnStart(impl, root, w)
    \/ AnOpenApi
    \/ AnCollect
    \/ AnFile
    \/ AnFinish

\* The analysis with a second run on the same input.
AnTwiceNext == AnNext \/ AnAgain


(***************************************************************************)
(* Specifications.                                                         *)
(***************************************************************************)
vars == <<svcVars, pvVars, fcVars, anVars>>

\* The service under concurrent requests.
Init == SvcInit /\ PvInit /\ FcInit /\ AnInit

Next == SvcNext

Spec == Init /\ [][Next]_vars

\* One provider call on the initial file system.
InitProvider == FsInit /\ ReqInit({}, MaxDepth) /\ PvInit /\ FcInit /\ AnInit

SpecProvider == InitProvider /\ [][PvNext]_vars

\* Two runs of the analysis on one tree.
SpecTwice == InitProvider /\ [][AnTwiceNext]_vars

\* One provider selection.
SpecFactory == InitProvider /\ [][FcNext]_vars

\* Provider selections with registrations at run time.
SpecRegistry == InitProvider /\ [][FcRegistryNext]_vars

\* One analysis of one source tree.
SpecAnalysis == InitProvider /\ [][AnNext]_vars


(***************************************************************************)
(* Claims about the service.                                               *)
(***************************************************************************)
InFlight(r) == pc[r] \notin {"idle", "done"}

UnderRoots(p) == InTemp(p) \/ (p # UPLOAD_DIR /\ IsPrefix(UPLOAD_DIR, p))

\* The paths a request in flight is working on.
InUse(r) ==
    {Resolve(fsDirs, stack[r][i].dir) : i \in DOMAIN stack[r]}
        \cup {Resolve(fsDirs, stack[r][i].zip) : i \in DOMAIN stack[r]}
        \cup (IF pc[r] \in {"analyze", "cleanup"}
                 THEN {NormFrom(<<>>, ret[r].dir)} ELSE {})
        \cup (IF inp[r].kind = "upload" /\ pc[r] \in {"unzip", "analyze", "cleanup"}
                 THEN {SavePath(r)} ELSE {})

\* The messages of a failed clone (clone_repository of the providers) and
\* of a failed archive download.
CloneMessages == {"not_found_or_auth", "auth_required", "clone_failed"}

ArchiveMessages == {"download_failed", "no_valid_branch"}

\* C1: the branch fallback of the archive download makes at most one
\* download attempt per branch: no branch is attempted again after it failed.
C1_NoBranchAttemptedAgain ==
    \A r \in Requests : \A b \in BranchUniverse : attempts[r][b] <= 1

\* C2: when no branch is requested, every provider's download_zip gives
\* download_zip_from_branch the candidates in the order main, master,
\* develop, trunk, default, stops at the first success, and fails only after
\* all five candidates have been attempted.
C2_CandidatesInOrder ==
    (pvPc = "done" /\ pvOp = "download_zip" /\ pvBranch = None) =>
        /\ pvTried # <<>>
        /\ IsPrefix(pvTried, Candidates)
        /\ pvRes.status = "raised" => pvTried = Candidates

\* C3: with an explicit branch the archive download attempts exactly that
\* branch, once, and never any other branch.
C3_OnlyRequestedBranch ==
    \A r \in Requests :
        inp[r].kind = "github" /\ inp[r].branch # None =>
            \A b \in BranchUniverse :
                attempts[r][b] <= (IF b = inp[r].branch THEN 1 ELSE 0)

\* C4: an archive download is attempted only after a clone attempt of the
\* same request has failed.
C4_CloneBeforeArchive ==
    \A r \in Requests : "archive" \in events[r] => "clone_failed" \in events[r]

\* C5: when retrieval fails, the returned result's errors hold both the
\* clone failure message and the archive failure message.
C5_BothCausesReported ==
    \A r \in Requests :
        (resp[r].returned /\ inp[r].kind = "github"
            /\ ret[r].status = "raised" /\ "archive" \in events[r]) =>
        /\ \E i \in DOMAIN resp[r].errors : resp[r].errors[i] \in CloneMessages
        /\ \E i \in DOMAIN resp[r].errors : resp[r].errors[i] \in ArchiveMessages

\* C6: once a request has finished, every file and directory it created
\* under the upload and temp roots has been deleted.
C6_CreatedPathsDeleted ==
    \A r \in Requests :
        pc[r] = "done" =>
            \A p \in created[r] : UnderRoots(p) => p \notin fsDirs \cup fsFiles

\* C7: when an archive download fails after creating its directory under
\* the temp root, that directory no longer exists when the failure reaches
\* the caller.
C7_FailedAttemptRemovesDir ==
    \A r \in Requests :
        (pc[r] = "except" /\ ret[r].made # None /\ InTemp(ret[r].made)) =>
            ret[r].made \notin fsDirs

\* C8: two requests in flight never work on the same path.
C8_NoSharedPath ==
    \A r1, r2 \in Requests :
        (r1 # r2 /\ InFlight(r1) /\ InFlight(r2)) =>
            (InUse(r1) \ {ENOENT}) \cap InUse(r2) = {}

\* C9: the directory retrieval returns for analysis lies inside the temp
\* root.
C9_ReturnedDirInsideTemp ==
    \A r \in Requests :
        ret[r].status = "ok" => InTemp(NormFrom(<<>>, ret[r].dir))

\* C10: create_provider returns a host-specific provider whose pattern the URL
\* matches whenever the URL matches one, and the Generic provider for a URL
\* that matches none.
HostSpecific == {"github", "gitlab", "bitbucket"}

C10_HostSpecificSelected ==
    (fcPc = "done" /\ fcRes.status = "returned") =>
        LET M == {p \in HostSpecific : can_handle(p, fcUrl)}
        IN  IF M = {} THEN fcRes.prov = "generic" ELSE fcRes.prov \in M

\* C11: create_provider returns a provider for every URL and never aborts:
\* a provider whose probe or constructor fails is passed over, and the
\* provider returned is the first in priority order that accepts the URL and
\* can be constructed.
C11_SelectionNeverAborts ==
    fcPc = "done" =>
        /\ fcRes.status = "returned"
        /\ \A i \in 1..(fcIdx - 1) :
              ~(can_handle(fcProviders[i], fcUrl)
                  /\ Construct(fcProviders[i], fcUrl) = "")

\* C13: a repository URL whose path has fewer than two segments is rejected
\* before any network or file system I/O, and the boundary answers with a
\* client error instead of an inventory.
C13_ShortUrlIsClientError ==
    \A r \in Requests :
        (pc[r] = "done" /\ inp[r].kind = "github"
            /\ BoundaryStatus(inp[r]) = 200
            /\ Len(PathParts(inp[r].url)) < 2) =>
        /\ created[r] = {}
        /\ events[r] = {}
        /\ ~resp[r].returned
        /\ resp[r].http \in 400..499

\* C14: default-branch resolution raises the not-found error when the host
\* answers that the repository does not exist, and returns "main" after
\* every other failure.
C14_DefaultBranchFallback ==
    (pvPc = "done" /\ pvOp = "get_default_branch" /\ pvHost # "") =>
        /\ pvHost = "404" =>
              pvRes.status = "raised" /\ pvRes.msg = "repo_not_found"
        /\ pvHost \in {"500", "network"} =>
              pvRes.status = "returned" /\ pvRes.val = <<"main">>

HasKey(rec, k) == \E i \in 1..Len(rec) : rec[i] = k

\* C15: get_repo_info never raises to its caller; after every failure it
\* returns a record that holds at least the repository URL and the
\* repository name.
C15_RepoInfoNeverRaises ==
    (pvPc = "done" /\ pvOp \in {"get_repo_info", "git_service.get_repo_info"}) =>
        /\ pvRes.status = "returned"
        /\ HasKey(pvRes.val, "url")
        /\ HasKey(pvRes.val, "repo_name")


(***************************************************************************)
(* Claims about the analysis.                                              *)
(***************************************************************************)
\* The analysis ran to its end (the result was not built from a retrieval
\* error).
Analysed == anPc = "done" /\ anImpl # "none"

Src(f) == relative_to(PathOf(anRoot, f), anRoot)

OfType(apis, t) == SelectSeq(apis, LAMBDA a : a.type = t)

FromFile(apis, src) == SelectSeq(apis, LAMBDA a : a.source_file = src)

ErrorsFor(src) == SelectSeq(anResult.errors, LAMBDA e : e.file = src)

\* The outcome of the loop's turn for file f taken alone.
Alone(f) == AnalyzeFile(anImpl, anRoot, f, NoLists)

\* An OpenAPI candidate the pass could not open, parse or read as a mapping.
CandidateFails(f) == ~f.readable \/ safe_load(f.content).kind # "mapping"

\* C12: the entry points always return a result, and every failure of
\* staging, retrieval, extraction or detection has an entry in its errors.
C12_EveryFailureReported ==
    anPc = "done" =>
        /\ anImpl = "none" => anResult.errors # <<>>
        /\ \A k \in 1..Len(anCode) :
              Alone(anCode[k]).exc # "" => ErrorsFor(Src(anCode[k])) # <<>>
        /\ \A k \in 1..Len(anFound) :
              CandidateFails(anFound[k]) => ErrorsFor(Src(anFound[k])) # <<>>

ApiTypes == {"REST", "WebSocket", "gRPC", "GraphQL", "OpenAPI"}

\* C16: in every returned result stats.total is the number of entries of
\* apis and each per-type count is the number of entries of that type.
C16_StatsMatchApis ==
    anPc = "done" =>
        /\ anResult.stats["total"] = Len(anResult.apis)
        /\ \A t \in ApiTypes : anResult.stats[t] = Len(OfType(anResult.apis, t))

C16_Witness ==
    /\ Analysed
    /\ anResult.errors # <<>>
    /\ anResult.stats["OpenAPI"] >= 1
    /\ anResult.stats["REST"] >= 1
    /\ anResult.stats["total"] >= 2

Rank(t) ==
    CASE t = "OpenAPI" -> 1
      [] t = "REST" -> 2
      [] t = "WebSocket" -> 3
      [] t = "gRPC" -> 4
      [] t = "GraphQL" -> 5

\* The position at which the file of an entry was discovered: by the
\* OpenAPI pass for a document, by the walk for every other entry.
Discovered(a) ==
    LET fs == IF a.type = "OpenAPI" THEN anFound ELSE anCode
    IN  CHOOSE k \in 1..Len(fs) : Src(fs[k]) = a.source_file

\* C17: apis holds the OpenAPI documents, then REST, WebSocket, gRPC and
\* GraphQL entries, and within a type the files are in discovery order.
C17_TypeThenDiscoveryOrder ==
    Analysed =>
        \A i, j \in 1..Len(anResult.apis) :
            i < j =>
                LET a == anResult.apis[i]
                    b == anResult.apis[j]
                IN  /\ Rank(a.type) <= Rank(b.type)
                    /\ a.type = b.type => Discovered(a) <= Discovered(b)

C17_Witness ==
    /\ Analysed
    /\ \E i, j \in 1..Len(anResult.apis) :
          /\ i < j
          /\ anResult.apis[i].type = "REST"
          /\ anResult.apis[j].type = "REST"
          /\ anResult.apis[i].source_file # anResult.apis[j].source_file
    /\ \E i \in 1..Len(anResult.apis) : anResult.apis[i].type = "WebSocket"

\* C18: a collected file that fails gets exactly one error record with its
\* relative path, and every other collected file contributes what it
\* contributes when analysed alone.
C18_FailureIsolated ==
    Analysed =>
        \A k \in 1..Len(anCode) :
            LET f == anCode[k]
                o == Alone(f)
                walk == SelectSeq(anResult.apis, LAMBDA a : a.type # "OpenAPI")
            IN  IF o.exc # ""
                THEN Len(ErrorsFor(Src(f))) = 1
                ELSE /\ ErrorsFor(Src(f)) = <<>>
                     /\ FromFile(walk, Src(f)) =
                           o.lists.rest \o o.lists.ws \o o.lists.grpc
                           \o o.lists.gql

C18_Witness ==
    /\ Analysed
    /\ \E k, j \in 1..Len(anCode) :
          /\ k < j
          /\ Alone(anCode[k]).exc # ""
          /\ Alone(anCode[j]).exc = ""
          /\ FromFile(anResult.apis, Src(anCode[j])) # <<>>

\* C19: an unparsable file with a conventional OpenAPI name has an error
\* entry, has no entry in apis, and the analysis completes.
C19_UnparsableSpecReported ==
    Analysed =>
        \A k \in 1..Len(anFound) :
            safe_load(anFound[k].content).kind = "error" =>
                /\ ErrorsFor(Src(anFound[k])) # <<>>
                /\ FromFile(OfType(anResult.apis, "OpenAPI"),
                            Src(anFound[k])) = <<>>

\* The content declares one route, by one decorator with a verb: one match
\* of the decorator pattern, and no other route outside that decorator.
SingleDecorator(c) ==
    /\ Len(finditer("fastapi_route", c, 1)) = 1
    /\ finditer("flask_route", c, 1) = <<>>
    /\ finditer("spring_route", c, 1) = <<>>
    /\ LET d == finditer("fastapi_route", c, 1)[1]
           e == finditer("express_route", c, 1)
       IN  \A k \in 1..Len(e) : e[k].start = d.start + 1

\* C20: a single route decorator with a verb gives exactly one endpoint,
\* with that verb, the declared path and the decorator's line.
C20_OneEndpointPerDecorator ==
    Analysed =>
        \A k \in 1..Len(anCode) :
            LET f == anCode[k]
                d == finditer("fastapi_route", f.content, 1)[1]
            IN  (f.readable /\ f.suffix = ".py" /\ SingleDecorator(f.content)) =>
                    FromFile(OfType(anResult.apis, "REST"), Src(f)) =
                        <<RESTEndpoint(Upper(d.method) \o " " \o d.path, d.path,
                                       Upper(d.method), Src(f),
                                       LineOf(f.content, d.start))>>


\* The methods a route declaration names in its list; GET without a list.
NamedMethods(m) ==
    IF m.has
    THEN SelectSeq(m.methods,
                   LAMBDA t : ~IsQuote(t) /\ ~IsSpace(t) /\ t # ",")
    ELSE <<"GET">>

\* The content declares its routes in the path-and-method-list style only.
RouteStyleOnly(c) ==
    /\ finditer("flask_route", c, 1) # <<>>
    /\ finditer("fastapi_route", c, 1) = <<>>
    /\ finditer("express_route", c, 1) = <<>>
    /\ finditer("spring_route", c, 1) = <<>>

\* C21: a route declaration with a method list gives exactly one endpoint
\* per method named in the list, and exactly one GET endpoint when it has
\* no list; each carries the declared path and the declaration's line.
C21_OneEndpointPerNamedMethod ==
    Analysed =>
        \A k \in 1..Len(anCode) :
            LET f == anCode[k]
                per(m) == Map1(NamedMethods(m),
                               LAMBDA n : RESTEndpoint(n \o " " \o m.path,
                                              m.path, n, Src(f),
                                              LineOf(f.content, m.start)))
            IN  (f.readable /\ f.suffix = ".py" /\ RouteStyleOnly(f.content)) =>
                    FromFile(OfType(anResult.apis, "REST"), Src(f)) =
                        Flatten(Map1(finditer("flask_route", f.content, 1),
                                     per))


\* The rpc declarations of a block as the block states them: the name and
\* the two message types of every rpc ... ; statement.
RpcDecls(b) ==
    LET at == SelectSeq([i \in 1..Len(b) |-> i], LAMBDA i : b[i] = "rpc")
        words(i) == SelectSeq(SubSeq(b, i + 1, NextIn(b, i, {";"})),
                              LAMBDA t : t \in Identifiers)
    IN  [k \in 1..Len(at) |->
            [name |-> words(at[k])[1], input_type |-> words(at[k])[2],
             output_type |-> words(at[k])[3], streaming |-> FALSE]]

\* C22: an interface-definition file gives one service per service NAME {
\* declaration, named NAME, whose methods are exactly the rpc declarations
\* of its balanced-brace block, non-streaming when the file has no stream
\* token; service Greeter { rpc SayHello (HelloRequest) returns
\* (HelloResponse); } gives Greeter with the non-streaming method SayHello.
C22_ServicePerDeclaration ==
    Analysed =>
        \A k \in 1..Len(anCode) :
            LET f == anCode[k]
                c == f.content
                decl == finditer("grpc_service", c, 1)
                got == FromFile(OfType(anResult.apis, "gRPC"), Src(f))
            IN  (/\ f.readable
                 /\ f.suffix = ".proto"
                 /\ \A i \in 1..Len(c) : c[i] # "stream") =>
                    /\ Len(got) = Len(decl)
                    /\ \A s \in 1..Len(decl) :
                          /\ got[s].name = decl[s].name
                          /\ got[s].methods =
                                RpcDecls(SubSeq(c, decl[s].start,
                                         BlockEnd(c, decl[s].start, 0)))


\* How often the entry a occurs in apis.
Count(apis, a) == Len(SelectSeq(apis, LAMBDA x : x = a))

\* C23: a second run of the analysis on the same implementation, root and
\* tree returns the same stats and the same multiset of APIs as the first
\* (the entries of the model carry no identifier and no timestamp).
C23_RerunSameInventory ==
    (anPc = "done" /\ anPrev # <<>>) =>
        /\ anResult.stats = anPrev[1].stats
        /\ \A i \in 1..Len(anResult.apis) :
              Count(anResult.apis, anResult.apis[i])
                  = Count(anPrev[1].apis, anResult.apis[i])
        /\ Len(anResult.apis) = Len(anPrev[1].apis)


\* The segments of the directory that holds f, below the root.
DirSegments(f) == {f.dir[i] : i \in 1..Len(f.dir)}

\* C24: no collected file lies under a directory with a segment that starts
\* with "." or is node_modules, venv, .git, .idea or __pycache__; none has a
\* vendor, dist or build segment; every extension is in the allow-set.
C24_CollectedFilesAllowed ==
    \A k \in 1..Len(anCode) :
        LET f == anCode[k]
        IN  /\ \A seg \in DirSegments(f) :
                  /\ ~StartsWithDot(seg)
                  /\ seg \notin {"node_modules", "venv", ".git", ".idea",
                                 "__pycache__"}
            /\ (DirSegments(f) \cup {f.stem \o f.suffix})
                   \cap {"vendor", "dist", "build"} = {}
            /\ f.suffix \in {".py", ".js", ".ts", ".java", ".go", ".rb",
                             ".php", ".cs", ".proto", ".graphql", ".gql",
                             ".yaml", ".yml", ".json"}

C24_Witness ==
    /\ Analysed
    /\ Len(anCode) = 1
    /\ \E i, j \in 1..Len(anTree) :
          /\ ".idea" \in DirSegments(anTree[i])
          /\ "vendor" \in DirSegments(anTree[j])


\* C25: an upload whose name does not end in .zip is answered with status
\* 400, and nothing is staged, extracted or analysed for it.
C25_NonZipUploadIs400 ==
    \A r \in Requests :
        (pc[r] = "done" /\ inp[r].kind = "upload"
            /\ ~EndsWithZip(inp[r].filename)) =>
        /\ resp[r].http = 400
        /\ ~resp[r].returned
        /\ created[r] = {}


OtherImpl == IF anImpl = "service" THEN "analyzer" ELSE "service"

\* C27: CodebaseAnalyzer.analyze and APIDetectorService._analyze_codebase
\* return the same APIs, stats and error records for every tree: what a
\* run holds for a collected file is what the other implementation yields
\* for that file.
C27_ImplementationsAgree ==
    Analysed =>
        \A k \in 1..Len(anCode) :
            LET f == anCode[k]
                o == AnalyzeFile(OtherImpl, anRoot, f, NoLists)
                walk == SelectSeq(anResult.apis, LAMBDA a : a.type # "OpenAPI")
            IN  /\ FromFile(walk, Src(f)) =
                      o.lists.rest \o o.lists.ws \o o.lists.grpc \o o.lists.gql
                /\ ErrorsFor(Src(f)) =
                      IF o.exc = "" THEN <<>>
                      ELSE <<[file |-> Src(f), message |-> o.exc]>>


\* The paths of the files fs relative to root.
RelativePaths(fs, root) ==
    {relative_to(PathOf(root, fs[k]), root) : k \in 1..Len(fs)}

\* C28: whether the walk collects a file depends only on its path below the
\* root: the tree of a run yields the same relative paths under every root.
C28_CollectionIgnoresRoot ==
    (anPc \in {"files", "done"} /\ anImpl # "none") =>
        \A root \in Roots :
            RelativePaths(collect_code_files(root, anTree), root)
                = RelativePaths(anCode, anRoot)


\* The order in which before holds its providers is their order in after.
KeepsOrder(before, after) ==
    \A i, j \in 1..Len(before) :
        i < j =>
            \E k, l \in 1..Len(after) :
                k < l /\ after[k] = before[i] /\ after[l] = before[j]

\* C29: after any sequence of register_provider calls the list holds each
\* provider at most once and ends with the Generic provider, and a call
\* keeps the relative order of the providers registered before it.
C29_RegistryWellFormed ==
    /\ [](/\ \A i, j \in 1..Len(fcProviders) :
                i # j => fcProviders[i] # fcProviders[j]
          /\ fcProviders[Len(fcProviders)] = "generic")
    /\ [][KeepsOrder(fcProviders, fcProviders')]_vars

C29_Witness ==
    /\ Len(fcProviders) = 6
    /\ fcPc = "done"
    /\ fcRes.status = "returned"
    /\ fcRes.prov \in CustomProviders


\* The zip files request r has written: the paths it created whose name is
\* the archive name of one of its branches.
ZipsOf(c, r) ==
    {p \in c[r] :
        \E b \in BranchUniverse :
            LET n == JoinName(RepoName(inp[r].url) \o "_", b, ".zip")
            IN  p[Len(p)] = n[Len(n)]}

\* A call of download_repository_zip by r, nested or not, returns or raises.
CallEnds(r) == pc[r] = "dl" /\ Len(stack'[r]) < Len(stack[r])

\* C30: when download_repository_zip returns or raises, in a nested fallback
\* call too, no zip file it wrote under the temp directory exists any more
\* (a path another request wrote as well is left to that request).
C30_NoZipLeftBehind ==
    [][\A r \in Requests :
          CallEnds(r) =>
              \A p \in ZipsOf(created', r) :
                  (InTemp(p) /\ \A q \in Requests \ {r} : p \notin created'[q])
                      => p \notin fsFiles']_vars

=============================================================================
